---- MODULE Spec2Model ----
(***************************************************************************)
(* GaugeMetricProducer (statsd): the gauge producer's bucket engine,       *)
(* dimension guardrail, append path, pulls, condition and activation       *)
(* edges, and report dump, as a state machine over one producer.           *)
(*                                                                         *)
(* Times are in abstract nanoseconds: a bucket is a few units wide.        *)
(* DimToGaugeAtomsMap and the past-bucket map are functions whose domain   *)
(* is the set of keys present; vectors are sequences.                      *)
(***************************************************************************)
EXTENDS Integers, Sequences, FiniteSets, TLC

\* ---------------------------------------------------------------- bounds
MaxTime == 4
MaxBuckets == 2
MaxBatch == 2
MaxLate == 1
MaxOccur == 3
MaxCalls == 3

\* ------------------------------------------------------------- universes
Dims == {"A", "B", "C"}
Vals == {1, 2}
Times == 0..MaxTime

NoTag == -1
WhatAtom == 10
TriggerAtom == 20

RANDOM_ONE_SAMPLE == "RANDOM_ONE_SAMPLE"
CONDITION_CHANGE_TO_TRUE == "CONDITION_CHANGE_TO_TRUE"
FIRST_N_SAMPLES == "FIRST_N_SAMPLES"

kTrue == "kTrue"
kFalse == "kFalse"
kUnknown == "kUnknown"

kNotActive == "kNotActive"
kActive == "kActive"

BUCKET_TOO_SMALL == "BUCKET_TOO_SMALL"
kMaxLoggedBucketDropEvents == 10

\* ------------------------------------------------------------- variables
\* Constructor arguments and members that never change after construction.
VARIABLES mTimeBaseNs, mBucketSizeNs, mMinBucketSizeNs, mDimensionSoftLimit,
          mDimensionHardLimit, mGaugeAtomsPerDimensionLimit, mSamplingType,
          mPullTagId, mTriggerAtomId, mConditionSliced, mSamplingPercentage,
          mMaxPullDelayNs, mActivationTtlNs, mConditionTrackerIndex

\* The atoms the environment can deliver: their dimension keys and values.
VARIABLES envDims, envVals

\* The producer's mutable members.
VARIABLES mCurrentSlicedBucket, mPastBuckets, mSkippedBuckets,
          mCurrentSkippedBucket, mCurrentBucketNum, mCurrentBucketStartTimeNs,
          mCondition, mIsActive, mHasHitGuardrail, mDimensionGuardrailHit,
          mEventActivationMap

\* The environment and the observation of the last operation:
\*   elapsedRealtimeNs  the monotonic clock (getElapsedRealtimeNs)
\*   obs                what the last operation did: the number of
\*                      mPullerManager->Pull calls it made, the return path
\*                      its top-level matched event took ("none" without
\*                      one) and how its call of the puller ended ("none"
\*                      without one)
\*   hist               history: per dimension the atoms accepted and the
\*                      atoms discarded with too-small buckets since past
\*                      buckets were last erased, the kind of the last flush,
\*                      whether every event so far arrived in clock order
VARIABLES elapsedRealtimeNs, obs, hist

\* The anomaly hook: the number of anomaly trackers attached to the producer
\* (mAnomalyTrackers.size()), the map from dimension to gauge value that a
\* flush hands to them, and the number of alerts the configuration has for
\* the metric (the trackers the environment attaches).
VARIABLES mAnomalyTrackers, mCurrentSlicedBucketForAnomaly, envAlerts

\* The last call of a function on field values and matchers (filterValues,
\* subsetDimensions): its arguments and what it returned. The producer's
\* operations leave it alone; it is the state of SpecFieldValue, each of
\* whose behaviours is one call.
VARIABLES fvCall

\* The producer's mutex and the threads that call the producer, the state of
\* SpecLock:
\*   mMutex   the thread that owns the mutex, NoThread when it is unlocked
\*   thread   per thread where it is in its call (idle, waiting for the
\*            mutex, locked, halfway through the handler, applied), the
\*            call, and for a dump the report it wrote
\*   serial   history: the producer as it would be had the calls run whole,
\*            one after the other, in the order they took the mutex; for a
\*            thread in a dump, the report that order gives
\*   calls    the number of calls made so far
VARIABLES mMutex, thread, serial, calls

otherVars == <<fvCall, mMutex, thread, serial, calls>>

cfgVars == <<mTimeBaseNs, mBucketSizeNs, mMinBucketSizeNs, mDimensionSoftLimit,
             mDimensionHardLimit, mGaugeAtomsPerDimensionLimit, mSamplingType,
             mPullTagId, mTriggerAtomId, mConditionSliced, mSamplingPercentage,
             mMaxPullDelayNs, mActivationTtlNs, mConditionTrackerIndex,
             envDims, envVals, envAlerts>>

stateVars == <<mCurrentSlicedBucket, mPastBuckets, mSkippedBuckets,
               mCurrentSkippedBucket, mCurrentBucketNum,
               mCurrentBucketStartTimeNs, mCondition, mIsActive,
               mHasHitGuardrail, mDimensionGuardrailHit, mEventActivationMap,
               mAnomalyTrackers, mCurrentSlicedBucketForAnomaly>>

vars == <<cfgVars, stateVars, elapsedRealtimeNs, obs, hist, otherVars>>

\* ------------------------------------------------------------- utilities
EmptyMap == << >>

Min(a, b) == IF a < b THEN a ELSE b

Max(a, b) == IF a > b THEN a ELSE b

Put(m, k, v) == [x \in (DOMAIN m) \cup {k} |-> IF x = k THEN v ELSE m[x]]

RECURSIVE SumOver(_, _)
SumOver(f, S) ==
    IF S = {} THEN 0
    ELSE LET x == CHOOSE y \in S : TRUE IN f[x] + SumOver(f, S \ {x})

SeqsUpTo(S, n) == UNION {[1..k -> S] : k \in 0..n}

\* The producer as one value: the members, the observation and the history.
Self ==
    [mCurrentSlicedBucket |-> mCurrentSlicedBucket,
     mPastBuckets |-> mPastBuckets,
     mSkippedBuckets |-> mSkippedBuckets,
     mCurrentSkippedBucket |-> mCurrentSkippedBucket,
     mCurrentBucketNum |-> mCurrentBucketNum,
     mCurrentBucketStartTimeNs |-> mCurrentBucketStartTimeNs,
     mCondition |-> mCondition,
     mIsActive |-> mIsActive,
     mHasHitGuardrail |-> mHasHitGuardrail,
     mDimensionGuardrailHit |-> mDimensionGuardrailHit,
     mEventActivationMap |-> mEventActivationMap,
     mAnomalyTrackers |-> mAnomalyTrackers,
     mCurrentSlicedBucketForAnomaly |-> mCurrentSlicedBucketForAnomaly,
     obs |-> [path |-> obs.path, nPull |-> obs.nPull, pull |-> obs.pull,
             nFlush |-> 0, addPastBucket |-> << >>, result |-> "none",
             wizard |-> "kept"],
     hist |-> hist]

Install(s) ==
    /\ mCurrentSlicedBucket' = s.mCurrentSlicedBucket
    /\ mPastBuckets' = s.mPastBuckets
    /\ mSkippedBuckets' = s.mSkippedBuckets
    /\ mCurrentSkippedBucket' = s.mCurrentSkippedBucket
    /\ mCurrentBucketNum' = s.mCurrentBucketNum
    /\ mCurrentBucketStartTimeNs' = s.mCurrentBucketStartTimeNs
    /\ mCondition' = s.mCondition
    /\ mIsActive' = s.mIsActive
    /\ mHasHitGuardrail' = s.mHasHitGuardrail
    /\ mDimensionGuardrailHit' = s.mDimensionGuardrailHit
    /\ mEventActivationMap' = s.mEventActivationMap
    /\ mAnomalyTrackers' = s.mAnomalyTrackers
    /\ mCurrentSlicedBucketForAnomaly' = s.mCurrentSlicedBucketForAnomaly
    /\ obs' = [path |-> s.obs.path, nPull |-> s.obs.nPull, pull |-> s.obs.pull]
    /\ hist' = s.hist

\* The observation at the start of an operation.
Begin(s) ==
    [s EXCEPT !.obs = [nPull |-> 0, path |-> "none", pull |-> "none", nFlush |-> 0,
                       addPastBucket |-> << >>, result |-> "none",
                       wizard |-> "kept"]]

\* ------------------------------------------------------------ MetricProducer
mIsPulled == mPullTagId # NoTag

isRandomNSamples ==
    mSamplingType = RANDOM_ONE_SAMPLE \/ mSamplingType = FIRST_N_SAMPLES

getCurrentBucketEndTimeNs(s) ==
    mTimeBaseNs + (s.mCurrentBucketNum + 1) * mBucketSizeNs

\* Mutant of getBucketNumFromEndTimeNs: the number of the bucket that starts
\* at endNs.
getBucketNumOfNextBucket(endNs) == (endNs - mTimeBaseNs) \div mBucketSizeNs

getBucketNumFromEndTimeNs(endNs) == (endNs - mTimeBaseNs) \div mBucketSizeNs - 1

initialCondition(conditionIndex, cached) ==
    IF conditionIndex >= 0 THEN cached ELSE kTrue

SkippedBucketReset ==
    [bucketStartTimeNs |-> 0, bucketEndTimeNs |-> 0, dropEvents |-> << >>]

buildDropEvent(dropTimeNs, reason) == [reason |-> reason, dropTimeNs |-> dropTimeNs]

maxDropEventsReached(s) ==
    Len(s.mCurrentSkippedBucket.dropEvents) >= kMaxLoggedBucketDropEvents

truncateTimestampIfNecessary(event) == event.ts


\* ------------------------------------------------------------ bucket engine
\* Mutant of AggregateAtoms: a group keeps only its first timestamp.
AggregateAtomsFirstOnly(atoms) ==
    [v \in {atoms[i].val : i \in DOMAIN atoms} |->
        LET same == SelectSeq(atoms, LAMBDA a : a.val = v)
        IN <<same[1].ts>>]

\* Mutant of AggregateAtoms: a group lists its timestamps newest first.
AggregateAtomsNewestFirst(atoms) ==
    [v \in {atoms[i].val : i \in DOMAIN atoms} |->
        LET same == SelectSeq(atoms, LAMBDA a : a.val = v)
        IN [i \in DOMAIN same |-> same[Len(same) + 1 - i].ts]]

\* mAggregatedAtoms of one slice: atoms grouped by their field values
\* (AtomDimensionKey), each group keeping the timestamps in push_back order.
AggregateAtoms(atoms) ==
    [v \in {atoms[i].val : i \in DOMAIN atoms} |->
        LET same == SelectSeq(atoms, LAMBDA a : a.val = v)
        IN [i \in DOMAIN same |-> same[i].ts]]

NumAtoms(bucket) == SumOver([d \in DOMAIN bucket |-> Len(bucket[d])], DOMAIN bucket)

NumTimestamps(info) ==
    SumOver([v \in DOMAIN info.mAggregatedAtoms |-> Len(info.mAggregatedAtoms[v])],
            DOMAIN info.mAggregatedAtoms)

\* History: the atoms of the closed bucket were discarded (bucket too small).
NoteDiscarded(h, bucket) ==
    [h EXCEPT !.discarded =
        [d \in Dims |-> @[d] + (IF d \in DOMAIN bucket THEN Len(bucket[d]) ELSE 0)]]

\* Lines 603-617: every dimension of the current bucket that holds an atom
\* gets the value of its first atom; the other entries of the map stay.
updateCurrentSlicedBucketForAnomaly(s) ==
    LET cur == s.mCurrentSlicedBucket
        filled == {d \in DOMAIN cur : cur[d] # << >>}
        old == s.mCurrentSlicedBucketForAnomaly
    IN [d \in (DOMAIN old) \cup filled |->
           IF d \in filled THEN cur[d][1].val ELSE old[d]]

\* Mutant of sendToAnomalyTrackers: a flush at the very end of the bucket
\* counts as a full bucket as well.
sendToAnomalyTrackersAtBucketEnd(s, eventTimeNs, fullBucketEndTimeNs) ==
    LET updated == updateCurrentSlicedBucketForAnomaly(s)
        sent == [k \in 1..s.mAnomalyTrackers |->
                     [tracker |-> k, bucket |-> updated,
                      bucketNum |-> s.mCurrentBucketNum]]
    IN IF s.mAnomalyTrackers > 0
       THEN IF eventTimeNs >= fullBucketEndTimeNs
            THEN <<EmptyMap, sent>>
            ELSE <<updated, << >> >>
       ELSE <<s.mCurrentSlicedBucketForAnomaly, << >> >>

\* Lines 684-695, the anomaly part of a flush: the pair of the map the
\* producer keeps and the addPastBucket calls made, one per tracker, each
\* with the map and the bucket number handed over.
sendToAnomalyTrackers(s, eventTimeNs, fullBucketEndTimeNs) ==
    LET updated == updateCurrentSlicedBucketForAnomaly(s)
        sent == [k \in 1..s.mAnomalyTrackers |->
                     [tracker |-> k, bucket |-> updated,
                      bucketNum |-> s.mCurrentBucketNum]]
    IN IF s.mAnomalyTrackers > 0
       THEN IF eventTimeNs > fullBucketEndTimeNs
            THEN <<EmptyMap, sent>>
            ELSE <<updated, << >> >>
       ELSE <<s.mCurrentSlicedBucketForAnomaly, << >> >>

\* The flush with two of its decisions as parameters: whether a bucket is
\* kept whatever its duration, and whether the producer counts as active.
FlushWith(s, eventTimeNs, nextBucketStartTimeNs, keepAll, active) ==
    LET fullBucketEndTimeNs == getCurrentBucketEndTimeNs(s)
        bucketEndTime == IF eventTimeNs < fullBucketEndTimeNs
                         THEN eventTimeNs ELSE fullBucketEndTimeNs
        isBucketLargeEnough ==
            bucketEndTime - s.mCurrentBucketStartTimeNs >= mMinBucketSizeNs
        cur == s.mCurrentSlicedBucket
        info(d) == [mBucketStartNs |-> s.mCurrentBucketStartTimeNs,
                    mBucketEndNs |-> bucketEndTime,
                    mAggregatedAtoms |-> AggregateAtoms(cur[d])]
        past == IF keepAll \/ isBucketLargeEnough
                THEN [d \in (DOMAIN s.mPastBuckets) \cup (DOMAIN cur) |->
                        IF d \in DOMAIN cur
                        THEN Append(IF d \in DOMAIN s.mPastBuckets
                                    THEN s.mPastBuckets[d] ELSE << >>, info(d))
                        ELSE s.mPastBuckets[d]]
                ELSE s.mPastBuckets
        skippedBucket ==
            [bucketStartTimeNs |-> s.mCurrentBucketStartTimeNs,
             bucketEndTimeNs |-> bucketEndTime,
             dropEvents |->
                 IF ~maxDropEventsReached(s)
                 THEN Append(s.mCurrentSkippedBucket.dropEvents,
                             buildDropEvent(eventTimeNs, BUCKET_TOO_SMALL))
                 ELSE s.mCurrentSkippedBucket.dropEvents]
        skipped == IF ~isBucketLargeEnough /\ active
                   THEN Append(s.mSkippedBuckets, skippedBucket)
                   ELSE s.mSkippedBuckets
        anomaly == sendToAnomalyTrackers(s, eventTimeNs, fullBucketEndTimeNs)
    IN [s EXCEPT !.mPastBuckets = past,
                 !.mSkippedBuckets = skipped,
                 !.mCurrentSlicedBucket = EmptyMap,
                 !.mCurrentBucketStartTimeNs = nextBucketStartTimeNs,
                 !.mCurrentSkippedBucket = SkippedBucketReset,
                 !.mHasHitGuardrail = FALSE,
                 !.mCurrentSlicedBucketForAnomaly = anomaly[1],
                 !.obs.addPastBucket = @ \o anomaly[2],
                 !.obs.nFlush = @ + 1,
                 !.hist = IF keepAll \/ isBucketLargeEnough
                          THEN @ ELSE NoteDiscarded(@, cur)]

\* Mutant of flushCurrentBucketLocked: every closed bucket is kept.
flushKeepingSmallBuckets(s, eventTimeNs, nextBucketStartTimeNs) ==
    FlushWith(s, eventTimeNs, nextBucketStartTimeNs, TRUE, s.mIsActive)

\* Mutant of flushCurrentBucketLocked: the active check is left out.
flushIgnoringActiveState(s, eventTimeNs, nextBucketStartTimeNs) ==
    FlushWith(s, eventTimeNs, nextBucketStartTimeNs, FALSE, TRUE)

\* Mutant of flushCurrentBucketLocked: the bucket start is left alone.
flushKeepingBucketStart(s, eventTimeNs, nextBucketStartTimeNs) ==
    [FlushWith(s, eventTimeNs, nextBucketStartTimeNs, FALSE, s.mIsActive)
        EXCEPT !.mCurrentBucketStartTimeNs = s.mCurrentBucketStartTimeNs]

flushCurrentBucketLocked(s, eventTimeNs, nextBucketStartTimeNs) ==
    LET fullBucketEndTimeNs == getCurrentBucketEndTimeNs(s)
        bucketEndTime == IF eventTimeNs < fullBucketEndTimeNs
                         THEN eventTimeNs ELSE fullBucketEndTimeNs
        isBucketLargeEnough ==
            bucketEndTime - s.mCurrentBucketStartTimeNs >= mMinBucketSizeNs
        cur == s.mCurrentSlicedBucket
        info(d) == [mBucketStartNs |-> s.mCurrentBucketStartTimeNs,
                    mBucketEndNs |-> bucketEndTime,
                    mAggregatedAtoms |-> AggregateAtoms(cur[d])]
        past == IF isBucketLargeEnough
                THEN [d \in (DOMAIN s.mPastBuckets) \cup (DOMAIN cur) |->
                        IF d \in DOMAIN cur
                        THEN Append(IF d \in DOMAIN s.mPastBuckets
                                    THEN s.mPastBuckets[d] ELSE << >>, info(d))
                        ELSE s.mPastBuckets[d]]
                ELSE s.mPastBuckets
        skippedBucket ==
            [bucketStartTimeNs |-> s.mCurrentBucketStartTimeNs,
             bucketEndTimeNs |-> bucketEndTime,
             dropEvents |->
                 IF ~maxDropEventsReached(s)
                 THEN Append(s.mCurrentSkippedBucket.dropEvents,
                             buildDropEvent(eventTimeNs, BUCKET_TOO_SMALL))
                 ELSE s.mCurrentSkippedBucket.dropEvents]
        skipped == IF ~isBucketLargeEnough /\ s.mIsActive
                   THEN Append(s.mSkippedBuckets, skippedBucket)
                   ELSE s.mSkippedBuckets
        anomaly == sendToAnomalyTrackers(s, eventTimeNs, fullBucketEndTimeNs)
    IN [s EXCEPT !.mPastBuckets = past,
                 !.mSkippedBuckets = skipped,
                 !.mCurrentSlicedBucket = EmptyMap,
                 !.mCurrentBucketStartTimeNs = nextBucketStartTimeNs,
                 !.mCurrentSkippedBucket = SkippedBucketReset,
                 !.mHasHitGuardrail = FALSE,
                 !.mCurrentSlicedBucketForAnomaly = anomaly[1],
                 !.obs.addPastBucket = @ \o anomaly[2],
                 !.obs.nFlush = @ + 1,
                 !.hist = IF isBucketLargeEnough THEN @ ELSE NoteDiscarded(@, cur)]

\* Mutant of flushIfNeededLocked: the next bucket starts at the event time.
flushIfNeededUnaligned(s, eventTimeNs) ==
    LET currentBucketEndTimeNs == getCurrentBucketEndTimeNs(s)
        numBucketsForward ==
            1 + (eventTimeNs - currentBucketEndTimeNs) \div mBucketSizeNs
        f == flushCurrentBucketLocked(s, eventTimeNs, eventTimeNs)
    IN IF eventTimeNs < currentBucketEndTimeNs THEN s
       ELSE [f EXCEPT !.mCurrentBucketNum = @ + numBucketsForward,
                      !.hist.lastFlush = "full"]

\* Mutant of flushIfNeededLocked: the bucket number is left as it is.
flushIfNeededKeepingBucketNum(s, eventTimeNs) ==
    LET currentBucketEndTimeNs == getCurrentBucketEndTimeNs(s)
        numBucketsForward ==
            1 + (eventTimeNs - currentBucketEndTimeNs) \div mBucketSizeNs
        nextBucketNs == currentBucketEndTimeNs + (numBucketsForward - 1) * mBucketSizeNs
        f == flushCurrentBucketLocked(s, eventTimeNs, nextBucketNs)
    IN IF eventTimeNs < currentBucketEndTimeNs THEN s
       ELSE [f EXCEPT !.hist.lastFlush = "full"]

\* Mutant of flushIfNeededLocked: the bucket number moves forward by one
\* whatever the event time.
flushIfNeededOneBucketForward(s, eventTimeNs) ==
    LET currentBucketEndTimeNs == getCurrentBucketEndTimeNs(s)
        numBucketsForward ==
            1 + (eventTimeNs - currentBucketEndTimeNs) \div mBucketSizeNs
        nextBucketNs == currentBucketEndTimeNs + (numBucketsForward - 1) * mBucketSizeNs
        f == flushCurrentBucketLocked(s, eventTimeNs, nextBucketNs)
    IN IF eventTimeNs < currentBucketEndTimeNs THEN s
       ELSE [f EXCEPT !.mCurrentBucketNum = @ + 1,
                      !.hist.lastFlush = "full"]

flushIfNeededLocked(s, eventTimeNs) ==
    LET currentBucketEndTimeNs == getCurrentBucketEndTimeNs(s)
        numBucketsForward ==
            1 + (eventTimeNs - currentBucketEndTimeNs) \div mBucketSizeNs
        nextBucketNs == currentBucketEndTimeNs + (numBucketsForward - 1) * mBucketSizeNs
        f == flushCurrentBucketLocked(s, eventTimeNs, nextBucketNs)
    IN IF eventTimeNs < currentBucketEndTimeNs THEN s
       ELSE [f EXCEPT !.mCurrentBucketNum = @ + numBucketsForward,
                      !.hist.lastFlush = "full"]

\* Mutant of flushLocked: the bucket after the partial one starts where the
\* partial one started.
flushLockedRestartingBucket(s, eventTimeNs) ==
    LET g == flushIfNeededLocked(s, eventTimeNs)
        f == flushCurrentBucketLocked(g, eventTimeNs, g.mCurrentBucketStartTimeNs)
    IN [f EXCEPT !.hist.lastFlush = "partial"]

\* Mutant of flushLocked: the bucket after the partial one starts at the end
\* of the full bucket.
flushLockedToBucketEnd(s, eventTimeNs) ==
    LET g == flushIfNeededLocked(s, eventTimeNs)
        f == flushCurrentBucketLocked(g, eventTimeNs, getCurrentBucketEndTimeNs(g))
    IN [f EXCEPT !.hist.lastFlush = "partial"]

flushLocked(s, eventTimeNs) ==
    LET f == flushCurrentBucketLocked(flushIfNeededLocked(s, eventTimeNs),
                                      eventTimeNs, eventTimeNs)
    IN [f EXCEPT !.hist.lastFlush = "partial"]

\* ------------------------------------------------------ dimension guardrail
\* Lines 519-533: whether a new key is refused when the bucket holds `size`
\* keys, under the given limits. The hard limit is looked at only once the
\* soft limit is reached.
GuardRailRejects(size, softLimit, hardLimit) ==
    IF size >= softLimit THEN size + 1 > hardLimit ELSE FALSE

\* Mutant of hitGuardRailLocked: the flag for the dump is not raised.
hitGuardRailWithoutDumpFlag(s, newKey) ==
    LET size == Cardinality(DOMAIN s.mCurrentSlicedBucket)
    IN IF newKey \in DOMAIN s.mCurrentSlicedBucket THEN <<s, FALSE>>
       ELSE IF GuardRailRejects(size, mDimensionSoftLimit, mDimensionHardLimit)
            THEN <<[s EXCEPT !.mHasHitGuardrail = TRUE,
                             !.hist.rejected = TRUE], TRUE>>
            ELSE <<s, FALSE>>

\* The pair <<new state, return value>>.
hitGuardRailLocked(s, newKey) ==
    LET size == Cardinality(DOMAIN s.mCurrentSlicedBucket)
    IN IF newKey \in DOMAIN s.mCurrentSlicedBucket THEN <<s, FALSE>>
       ELSE IF GuardRailRejects(size, mDimensionSoftLimit, mDimensionHardLimit)
            THEN <<[s EXCEPT !.mHasHitGuardrail = TRUE,
                             !.mDimensionGuardrailHit = TRUE,
                             !.hist.rejected = TRUE], TRUE>>
            ELSE <<s, FALSE>>

\* ------------------------------------------------------------- append path
NoteAccepted(h, d) == [h EXCEPT !.accepted[d] = @ + 1]

\* The append with two of its checks as parameters.
AppendWith(s, eventKey, event, randomOneCheck, capCheck) ==
    LET g == hitGuardRailLocked(s, eventKey)
        s1 == g[1]
        inserted == IF eventKey \in DOMAIN s1.mCurrentSlicedBucket
                    THEN s1.mCurrentSlicedBucket
                    ELSE Put(s1.mCurrentSlicedBucket, eventKey, << >>)
        gaugeAtom == [val |-> event.val, ts |-> truncateTimestampIfNecessary(event)]
    IN IF randomOneCheck /\ eventKey \in DOMAIN s.mCurrentSlicedBucket
          /\ mSamplingType = RANDOM_ONE_SAMPLE
       THEN [s EXCEPT !.obs.path = "randomOne"]
       ELSE IF g[2] THEN [s1 EXCEPT !.obs.path = "guardrail"]
       ELSE IF capCheck /\ Len(inserted[eventKey]) >= mGaugeAtomsPerDimensionLimit
            THEN [s1 EXCEPT !.mCurrentSlicedBucket = inserted, !.obs.path = "atCap"]
       ELSE [s1 EXCEPT !.mCurrentSlicedBucket =
                           Put(inserted, eventKey, Append(inserted[eventKey], gaugeAtom)),
                       !.obs.path = "appended",
                       !.hist = NoteAccepted(@, eventKey)]

\* Mutant of appendGaugeAtom: the per-dimension cap is not checked.
appendWithoutCap(s, eventKey, event) == AppendWith(s, eventKey, event, TRUE, FALSE)

\* Mutant of appendGaugeAtom: the RANDOM_ONE_SAMPLE check is left out.
appendWithoutRandomOne(s, eventKey, event) ==
    AppendWith(s, eventKey, event, FALSE, TRUE)

\* Lines 568-583: the sampling check, the guardrail, the per-dimension cap
\* (operator[] inserts the key before its size is read) and the push_back.
appendGaugeAtom(s, eventKey, event) ==
    LET g == hitGuardRailLocked(s, eventKey)
        s1 == g[1]
        inserted == IF eventKey \in DOMAIN s1.mCurrentSlicedBucket
                    THEN s1.mCurrentSlicedBucket
                    ELSE Put(s1.mCurrentSlicedBucket, eventKey, << >>)
        gaugeAtom == [val |-> event.val, ts |-> truncateTimestampIfNecessary(event)]
    IN IF eventKey \in DOMAIN s.mCurrentSlicedBucket /\ mSamplingType = RANDOM_ONE_SAMPLE
       THEN [s EXCEPT !.obs.path = "randomOne"]
       ELSE IF g[2] THEN [s1 EXCEPT !.obs.path = "guardrail"]
       ELSE IF Len(inserted[eventKey]) >= mGaugeAtomsPerDimensionLimit
            THEN [s1 EXCEPT !.mCurrentSlicedBucket = inserted, !.obs.path = "atCap"]
       ELSE [s1 EXCEPT !.mCurrentSlicedBucket =
                           Put(inserted, eventKey, Append(inserted[eventKey], gaugeAtom)),
                       !.obs.path = "appended",
                       !.hist = NoteAccepted(@, eventKey)]

RECURSIVE onMatchedLogEventLocked(_, _, _)

\* Mutant of pullAndMatchEventsLocked: the puller is triggered whatever the
\* sampling type and the bucket hold.
pullAlways(s, timestampNs, pull) ==
    LET called == [s EXCEPT !.obs.nPull = @ + 1, !.obs.pull = "done"]
        localCopy(data) == [tag |-> WhatAtom, dim |-> data.dim, val |-> data.val,
                            ts |-> timestampNs, sliceCond |-> data.sliceCond,
                            keep |-> TRUE]
        loop[i \in 0..Len(pull.data)] ==
            IF i = 0 THEN called
            ELSE IF pull.data[i].matched
                 THEN onMatchedLogEventLocked(loop[i - 1], localCopy(pull.data[i]), pull)
                 ELSE loop[i - 1]
    IN IF ~pull.ok THEN [called EXCEPT !.obs.pull = "failed"]
       ELSE IF pull.delayNs > mMaxPullDelayNs
            THEN [called EXCEPT !.obs.pull = "tooLate"]
       ELSE loop[Len(pull.data)]

\* Mutant of pullAndMatchEventsLocked: the pull delay is not looked at.
pullWithoutDelayCheck(s, timestampNs, pull) ==
    LET triggerPuller ==
            CASE mSamplingType = RANDOM_ONE_SAMPLE -> s.mCurrentSlicedBucket = EmptyMap
              [] mSamplingType \in {CONDITION_CHANGE_TO_TRUE, FIRST_N_SAMPLES} -> TRUE
              [] OTHER -> FALSE
        called == [s EXCEPT !.obs.nPull = @ + 1, !.obs.pull = "done"]
        localCopy(data) == [tag |-> WhatAtom, dim |-> data.dim, val |-> data.val,
                            ts |-> timestampNs, sliceCond |-> data.sliceCond,
                            keep |-> TRUE]
        loop[i \in 0..Len(pull.data)] ==
            IF i = 0 THEN called
            ELSE IF pull.data[i].matched
                 THEN onMatchedLogEventLocked(loop[i - 1], localCopy(pull.data[i]), pull)
                 ELSE loop[i - 1]
    IN IF ~triggerPuller THEN s
       ELSE IF ~pull.ok THEN [called EXCEPT !.obs.pull = "failed"]
       ELSE loop[Len(pull.data)]

\* `pull` is what mPullerManager->Pull gives when it is called:
\* [ok, delayNs, data], data a sequence of [matched, dim, val, sliceCond].
pullAndMatchEventsLocked(s, timestampNs, pull) ==
    LET triggerPuller ==
            CASE mSamplingType = RANDOM_ONE_SAMPLE -> s.mCurrentSlicedBucket = EmptyMap
              [] mSamplingType \in {CONDITION_CHANGE_TO_TRUE, FIRST_N_SAMPLES} -> TRUE
              [] OTHER -> FALSE
        called == [s EXCEPT !.obs.nPull = @ + 1, !.obs.pull = "done"]
        localCopy(data) == [tag |-> WhatAtom, dim |-> data.dim, val |-> data.val,
                            ts |-> timestampNs, sliceCond |-> data.sliceCond,
                            keep |-> TRUE]
        loop[i \in 0..Len(pull.data)] ==
            IF i = 0 THEN called
            ELSE IF pull.data[i].matched
                 THEN onMatchedLogEventLocked(loop[i - 1], localCopy(pull.data[i]), pull)
                 ELSE loop[i - 1]
    IN IF ~triggerPuller THEN s
       ELSE IF ~pull.ok THEN [called EXCEPT !.obs.pull = "failed"]
       ELSE IF pull.delayNs > mMaxPullDelayNs
            THEN [called EXCEPT !.obs.pull = "tooLate"]
       ELSE loop[Len(pull.data)]

\* Mutant of onMatchedLogEventInternalLocked: a trigger event is appended
\* as a gauge atom after the pull.
onMatchedTriggerAlsoAppended(s, eventKey, condition, event, pull) ==
    LET eventTimeNs == event.ts
        f == flushIfNeededLocked(s, eventTimeNs)
    IN IF condition = FALSE THEN [s EXCEPT !.obs.path = "condFalse"]
       ELSE IF mPullTagId = NoTag /\ mSamplingPercentage < 100 /\ ~event.keep
            THEN [s EXCEPT !.obs.path = "sampledOut"]
       ELSE IF eventTimeNs < s.mCurrentBucketStartTimeNs
            THEN [s EXCEPT !.obs.path = "late"]
       ELSE IF mTriggerAtomId = event.tag
            THEN [appendGaugeAtom(pullAndMatchEventsLocked(f, eventTimeNs, pull),
                                  eventKey, event)
                     EXCEPT !.obs.path = "trigger"]
       ELSE appendGaugeAtom(f, eventKey, event)

\* Mutant of onMatchedLogEventInternalLocked: the condition is not looked at.
onMatchedWithoutConditionCheck(s, eventKey, condition, event, pull) ==
    LET eventTimeNs == event.ts
        f == flushIfNeededLocked(s, eventTimeNs)
    IN IF mPullTagId = NoTag /\ mSamplingPercentage < 100 /\ ~event.keep
       THEN [s EXCEPT !.obs.path = "sampledOut"]
       ELSE IF eventTimeNs < s.mCurrentBucketStartTimeNs
            THEN [s EXCEPT !.obs.path = "late"]
       ELSE IF mTriggerAtomId = event.tag
            THEN [pullAndMatchEventsLocked(f, eventTimeNs, pull)
                     EXCEPT !.obs.path = "trigger"]
       ELSE appendGaugeAtom(f, eventKey, event)

\* Mutant of onMatchedLogEventInternalLocked: no late-arrival check.
onMatchedWithoutLateCheck(s, eventKey, condition, event, pull) ==
    LET eventTimeNs == event.ts
        f == flushIfNeededLocked(s, eventTimeNs)
    IN IF condition = FALSE THEN [s EXCEPT !.obs.path = "condFalse"]
       ELSE IF mPullTagId = NoTag /\ mSamplingPercentage < 100 /\ ~event.keep
            THEN [s EXCEPT !.obs.path = "sampledOut"]
       ELSE IF mTriggerAtomId = event.tag
            THEN [pullAndMatchEventsLocked(f, eventTimeNs, pull)
                     EXCEPT !.obs.path = "trigger"]
       ELSE appendGaugeAtom(f, eventKey, event)

onMatchedLogEventInternalLocked(s, eventKey, condition, event, pull) ==
    LET eventTimeNs == event.ts
        f == flushIfNeededLocked(s, eventTimeNs)
    IN IF condition = FALSE THEN [s EXCEPT !.obs.path = "condFalse"]
       ELSE IF mPullTagId = NoTag /\ mSamplingPercentage < 100 /\ ~event.keep
            THEN [s EXCEPT !.obs.path = "sampledOut"]
       ELSE IF eventTimeNs < s.mCurrentBucketStartTimeNs
            THEN [s EXCEPT !.obs.path = "late"]
       ELSE IF mTriggerAtomId = event.tag
            THEN [pullAndMatchEventsLocked(f, eventTimeNs, pull)
                     EXCEPT !.obs.path = "trigger"]
       ELSE appendGaugeAtom(f, eventKey, event)

\* MetricProducer::onMatchedLogEventLocked: the active check and the
\* condition of the event (the wizard's answer when the condition is sliced).
onMatchedLogEventLocked(s, event, pull) ==
    LET condition == IF mConditionSliced THEN event.sliceCond
                     ELSE s.mCondition = kTrue
    IN IF ~s.mIsActive THEN [s EXCEPT !.obs.path = "inactive"]
       ELSE onMatchedLogEventInternalLocked(s, event.dim, condition, event, pull)

onDataPulled(s, allData, pullResultSuccess, originalPullTimeNs, nowNs) ==
    LET pullDelayNs == nowNs - originalPullTimeNs
        NoPull == [ok |-> FALSE, delayNs |-> 0, data |-> << >>]
        event(data) == [tag |-> WhatAtom, dim |-> data.dim, val |-> data.val,
                        ts |-> data.ts, sliceCond |-> data.sliceCond, keep |-> TRUE]
        loop[i \in 0..Len(allData)] ==
            IF i = 0 THEN s
            ELSE IF allData[i].matched
                 THEN onMatchedLogEventLocked(loop[i - 1], event(allData[i]), NoPull)
                 ELSE loop[i - 1]
    IN IF ~pullResultSuccess \/ Len(allData) = 0 THEN s
       ELSE IF pullDelayNs > mMaxPullDelayNs THEN s
       ELSE loop[Len(allData)]

\* ------------------------------------------------- condition and activation
onConditionChangedLocked(s, conditionMet, eventTimeNs, pull) ==
    LET c == [s EXCEPT !.mCondition = IF conditionMet THEN kTrue ELSE kFalse]
        f == flushIfNeededLocked(c, eventTimeNs)
    IN IF ~c.mIsActive THEN c
       ELSE IF conditionMet /\ mIsPulled
               /\ (isRandomNSamples \/ mSamplingType = CONDITION_CHANGE_TO_TRUE)
            THEN pullAndMatchEventsLocked(f, eventTimeNs, pull)
       ELSE f

\* Mutant of onSlicedConditionMayChangeLocked: a producer with a trigger atom
\* pulls as well.
onSlicedConditionPullsWithTrigger(s, overallCondition, eventTimeNs, pull) ==
    LET c == [s EXCEPT !.mCondition = IF overallCondition THEN kTrue ELSE kFalse]
        f == flushIfNeededLocked(c, eventTimeNs)
    IN IF ~c.mIsActive THEN c
       ELSE IF overallCondition /\ mIsPulled
            THEN pullAndMatchEventsLocked(f, eventTimeNs, pull)
       ELSE f

onSlicedConditionMayChangeLocked(s, overallCondition, eventTimeNs, pull) ==
    LET c == [s EXCEPT !.mCondition = IF overallCondition THEN kTrue ELSE kFalse]
        f == flushIfNeededLocked(c, eventTimeNs)
    IN IF ~c.mIsActive THEN c
       ELSE IF overallCondition /\ mIsPulled /\ mTriggerAtomId = NoTag
            THEN pullAndMatchEventsLocked(f, eventTimeNs, pull)
       ELSE f

\* Mutant of onActiveStateChangedLocked: the condition is not looked at.
onActiveStateChangedIgnoringCondition(s, eventTimeNs, isActive, pull) ==
    LET b == IF ~isActive THEN flushLocked(s, eventTimeNs) ELSE s
    IN IF isActive /\ mIsPulled /\ isRandomNSamples
       THEN pullAndMatchEventsLocked(b, eventTimeNs, pull)
       ELSE b

\* GaugeMetricProducer::onActiveStateChangedLocked, which first runs
\* MetricProducer::onActiveStateChangedLocked.
onActiveStateChangedLocked(s, eventTimeNs, isActive, pull) ==
    LET b == IF ~isActive THEN flushLocked(s, eventTimeNs) ELSE s
    IN IF kTrue # b.mCondition THEN b
       ELSE IF isActive /\ mIsPulled /\ isRandomNSamples
            THEN pullAndMatchEventsLocked(b, eventTimeNs, pull)
       ELSE b

\* MetricProducer::activateLocked.
activateLocked(s, activationTrackerIndex, elapsedTimestampNs, pull) ==
    LET a == [s EXCEPT !.mEventActivationMap[activationTrackerIndex] =
                           [state |-> kActive, start_ns |-> elapsedTimestampNs]]
    IN IF activationTrackerIndex \notin DOMAIN s.mEventActivationMap THEN s
       ELSE IF ~s.mIsActive
            THEN onActiveStateChangedLocked([a EXCEPT !.mIsActive = TRUE],
                                            elapsedTimestampNs, TRUE, pull)
       ELSE a

\* MetricProducer::cancelEventActivationLocked: every activation the
\* deactivation matcher refers to is demoted.
cancelEventActivationLocked(s, refs) ==
    [s EXCEPT !.mEventActivationMap =
        [i \in DOMAIN @ |-> IF i \in refs THEN [@[i] EXCEPT !.state = kNotActive]
                            ELSE @[i]]]

\* MetricProducer::evaluateActiveStateLocked: the pair <<new state, isActive>>.
evaluateActiveStateLocked(s, elapsedTimestampNs) ==
    LET m == [i \in DOMAIN s.mEventActivationMap |->
                LET a == s.mEventActivationMap[i]
                IN IF a.state = kActive
                      /\ elapsedTimestampNs - a.start_ns >= mActivationTtlNs
                   THEN [a EXCEPT !.state = kNotActive] ELSE a]
    IN <<[s EXCEPT !.mEventActivationMap = m],
         \E i \in DOMAIN m : m[i].state = kActive>>

\* MetricProducer::flushIfExpire.
flushIfExpire(s, elapsedTimestampNs) ==
    LET e == evaluateActiveStateLocked(s, elapsedTimestampNs)
        NoPull == [ok |-> FALSE, delayNs |-> 0, data |-> << >>]
    IN IF ~s.mIsActive THEN s
       ELSE IF ~e[2]
            THEN [onActiveStateChangedLocked(e[1], elapsedTimestampNs, FALSE, NoPull)
                     EXCEPT !.mIsActive = FALSE]
       ELSE e[1]

\* ------------------------------------------------------------- other entries
\* History: past buckets were erased; the accounting restarts with the atoms
\* of the current bucket.
NoteErased(h, bucket) ==
    [h EXCEPT !.accepted =
                  [d \in Dims |-> IF d \in DOMAIN bucket THEN Len(bucket[d]) ELSE 0],
              !.discarded = [d \in Dims |-> 0]]

clearPastBucketsLocked(s, dumpTimeNs) ==
    LET f == flushIfNeededLocked(s, dumpTimeNs)
    IN [f EXCEPT !.mPastBuckets = EmptyMap, !.mSkippedBuckets = << >>,
                 !.hist = NoteErased(@, f.mCurrentSlicedBucket)]

\* Mutant of dropDataLocked: the skipped buckets are dropped as well.
dropDataWithSkippedBuckets(s, dropTimeNs) ==
    LET f == flushIfNeededLocked(s, dropTimeNs)
    IN [f EXCEPT !.mPastBuckets = EmptyMap, !.mSkippedBuckets = << >>,
                 !.hist = NoteErased(@, f.mCurrentSlicedBucket)]

\* Mutant of dropDataLocked: the flag that the guardrail was hit is dropped
\* with the data.
dropDataClearingGuardrailHit(s, dropTimeNs) ==
    LET f == flushIfNeededLocked(s, dropTimeNs)
    IN [f EXCEPT !.mPastBuckets = EmptyMap,
                 !.mDimensionGuardrailHit = FALSE,
                 !.hist = NoteErased(@, f.mCurrentSlicedBucket)]

dropDataLocked(s, dropTimeNs) ==
    LET f == flushIfNeededLocked(s, dropTimeNs)
    IN [f EXCEPT !.mPastBuckets = EmptyMap,
                 !.hist = NoteErased(@, f.mCurrentSlicedBucket)]

prepareFirstBucketLocked(s, pull) ==
    IF s.mCondition = kTrue /\ s.mIsActive /\ mIsPulled /\ isRandomNSamples
    THEN pullAndMatchEventsLocked(s, s.mCurrentBucketStartTimeNs, pull)
    ELSE s

\* MetricProducer.h, lines 356-371: one more anomaly tracker.
addAnomalyTracker(s) == [s EXCEPT !.mAnomalyTrackers = @ + 1]

\* What a config update meets: whether MetricProducer::onConfigUpdatedLocked
\* succeeds, and whether the new configuration has the what matcher, the
\* trigger matcher and the condition of the metric.
ConfigUpdates == [base : BOOLEAN, what : BOOLEAN, trigger : BOOLEAN, condition : BOOLEAN]

ValidUpdate == [base |-> TRUE, what |-> TRUE, trigger |-> TRUE, condition |-> TRUE]

\* The first step of the update that fails, "nullopt" when none does. The
\* trigger matcher is looked up only when the metric has a trigger event and
\* the condition only when it has one.
invalidConfigReason(update) ==
    IF ~update.base THEN "base"
    ELSE IF ~update.what THEN "what"
    ELSE IF mTriggerAtomId # NoTag /\ ~update.trigger THEN "trigger_event"
    ELSE IF mConditionTrackerIndex >= 0 /\ ~update.condition THEN "condition"
    ELSE "nullopt"

\* Mutant of onConfigUpdatedLocked: the wizard is replaced and the pull made
\* before the condition is looked up.
onConfigUpdatedBeforeConditionLookup(s, update, pull) ==
    LET reason == invalidConfigReason(update)
        base == [s EXCEPT !.mAnomalyTrackers = 0]
        replaced == [base EXCEPT !.obs.wizard = "replaced"]
        pulled ==
            IF s.mCondition = kTrue /\ s.mIsActive /\ mIsPulled /\ isRandomNSamples
            THEN pullAndMatchEventsLocked(replaced, s.mCurrentBucketStartTimeNs, pull)
            ELSE replaced
    IN IF reason = "base" THEN [s EXCEPT !.obs.result = reason]
       ELSE IF reason \in {"what", "trigger_event"}
            THEN [base EXCEPT !.obs.result = reason]
       ELSE [pulled EXCEPT !.obs.result = reason]

\* Lines 157-220. The base update clears the anomaly trackers
\* (MetricProducer.h, line 151). obs.result is the value returned and
\* obs.wizard tells whether mEventMatcherWizard was replaced.
onConfigUpdatedLocked(s, update, pull) ==
    LET reason == invalidConfigReason(update)
        base == [s EXCEPT !.mAnomalyTrackers = 0]
        replaced == [base EXCEPT !.obs.wizard = "replaced", !.obs.result = "nullopt"]
    IN IF reason = "base" THEN [s EXCEPT !.obs.result = reason]
       ELSE IF reason # "nullopt" THEN [base EXCEPT !.obs.result = reason]
       ELSE IF s.mCondition = kTrue /\ s.mIsActive /\ mIsPulled /\ isRandomNSamples
            THEN pullAndMatchEventsLocked(replaced, s.mCurrentBucketStartTimeNs, pull)
       ELSE replaced

\* Mutant of onDumpReportLocked: every dump erases.
dumpAlwaysErasing(s, dumpTimeNs, include_current_partial_bucket, erase_data) ==
    LET f == IF include_current_partial_bucket THEN flushLocked(s, dumpTimeNs)
             ELSE flushIfNeededLocked(s, dumpTimeNs)
    IN [f EXCEPT !.mPastBuckets = EmptyMap,
                 !.mSkippedBuckets = << >>,
                 !.mDimensionGuardrailHit = FALSE,
                 !.hist = NoteErased([@ EXCEPT !.rejected = FALSE],
                                     f.mCurrentSlicedBucket)]

\* Mutant of onDumpReportLocked: erase_data is not looked at.
dumpNeverErasing(s, dumpTimeNs, include_current_partial_bucket, erase_data) ==
    LET f == IF include_current_partial_bucket THEN flushLocked(s, dumpTimeNs)
             ELSE flushIfNeededLocked(s, dumpTimeNs)
    IN [f EXCEPT !.hist.rejected = FALSE]

\* Lines 252-256: the flush that precedes the serialization.
flushForDump(s, dumpTimeNs, include_current_partial_bucket) ==
    IF include_current_partial_bucket THEN flushLocked(s, dumpTimeNs)
    ELSE flushIfNeededLocked(s, dumpTimeNs)

\* Lines 326-334: the fields of one bucket_info that say which bucket it is,
\* as a function from the names of the fields written to what they are
\* written from (the two times go through NanoToMillis on their way out).
bucketInfoProto(bucket) ==
    IF bucket.mBucketEndNs - bucket.mBucketStartNs # mBucketSizeNs
    THEN [field \in {"start_bucket_elapsed_millis", "end_bucket_elapsed_millis"} |->
             IF field = "start_bucket_elapsed_millis"
             THEN bucket.mBucketStartNs ELSE bucket.mBucketEndNs]
    ELSE [field \in {"bucket_num"} |-> getBucketNumFromEndTimeNs(bucket.mBucketEndNs)]

\* Lines 258-362: what the dump writes to protoOutput after its flush, as far
\* as the model follows it. Nothing but the id and the active state is written when there
\* is neither a past nor a skipped bucket; the guardrail field is written
\* only when the flag is set.
writeReport(f) ==
    LET empty == f.mPastBuckets = EmptyMap /\ f.mSkippedBuckets = << >>
    IN [is_active |-> f.mIsActive,
        dimension_guardrail_hit |-> ~empty /\ f.mDimensionGuardrailHit,
        skipped |-> IF empty THEN << >> ELSE f.mSkippedBuckets,
        gauge_metrics |-> IF empty THEN EmptyMap ELSE f.mPastBuckets,
        bucket_info |->
            IF empty THEN EmptyMap
            ELSE [d \in DOMAIN f.mPastBuckets |->
                     [i \in DOMAIN f.mPastBuckets[d] |->
                         bucketInfoProto(f.mPastBuckets[d][i])]]]

dumpReportProto(s, dumpTimeNs, include_current_partial_bucket) ==
    writeReport(flushForDump(s, dumpTimeNs, include_current_partial_bucket))

\* History: a report has been produced.
NoteReported(h) == [h EXCEPT !.rejected = FALSE]

\* Lines 258-370: the dump after its flush.
dumpAfterFlush(f, erase_data) ==
    IF f.mPastBuckets = EmptyMap /\ f.mSkippedBuckets = << >> THEN f
    ELSE IF erase_data
         THEN [f EXCEPT !.mPastBuckets = EmptyMap,
                        !.mSkippedBuckets = << >>,
                        !.mDimensionGuardrailHit = FALSE,
                        !.hist = NoteErased(@, f.mCurrentSlicedBucket)]
    ELSE f

onDumpReportLocked(s, dumpTimeNs, include_current_partial_bucket, erase_data) ==
    LET f0 == flushForDump(s, dumpTimeNs, include_current_partial_bucket)
    IN dumpAfterFlush([f0 EXCEPT !.hist = NoteReported(@)], erase_data)

\* --------------------------------------------------------------- construction
\* MetricProducer's constructor: the members before GaugeMetricProducer's
\* constructor body runs.
BaseState(condition, activations) ==
    [mCurrentSlicedBucket |-> EmptyMap,
     mPastBuckets |-> EmptyMap,
     mSkippedBuckets |-> << >>,
     mCurrentSkippedBucket |-> SkippedBucketReset,
     mCurrentBucketNum |-> 0,
     mCurrentBucketStartTimeNs |-> mTimeBaseNs,
     mCondition |-> condition,
     mIsActive |-> (activations = {}),
     mHasHitGuardrail |-> FALSE,
     mDimensionGuardrailHit |-> FALSE,
     mEventActivationMap |->
         [i \in activations |-> [state |-> kNotActive, start_ns |-> 0]],
     mAnomalyTrackers |-> 0,
     mCurrentSlicedBucketForAnomaly |-> EmptyMap,
     obs |-> [nPull |-> 0, path |-> "none", pull |-> "none", nFlush |-> 0,
              addPastBucket |-> << >>, result |-> "none", wizard |-> "kept"],
     hist |-> [accepted |-> [d \in Dims |-> 0],
               discarded |-> [d \in Dims |-> 0],
               lastFlush |-> "none", inOrder |-> TRUE, rejected |-> FALSE]]

\* GaugeMetricProducer's constructor body: flushIfNeededLocked(startTimeNs),
\* then the start of the (possibly partial) first bucket.
Construct(startTimeNs, condition, activations) ==
    [flushIfNeededLocked(BaseState(condition, activations), startTimeNs)
        EXCEPT !.mCurrentBucketStartTimeNs = startTimeNs,
               !.hist.lastFlush = "none"]

\* ------------------------------------------------------------ configurations
PullTag == 30

\* A push producer: FIRST_N_SAMPLES, no condition, no activation, start on
\* the bucket grid.
BaseConfig ==
    [timeBaseNs |-> 0, startTimeNs |-> 0, bucketSizeNs |-> 2, minBucketSizeNs |-> 0,
     softLimit |-> 2, hardLimit |-> 2, atomsLimit |-> 1,
     samplingType |-> FIRST_N_SAMPLES, pullTagId |-> NoTag, triggerAtomId |-> NoTag,
     conditionIndex |-> -1, conditionSliced |-> FALSE, initialCondition |-> kTrue,
     samplingPercentage |-> 100, maxPullDelayNs |-> 1,
     activations |-> {}, activationTtlNs |-> 1, alerts |-> 0,
     dims |-> {"A"}, vals |-> {1}]

\* dimensionSoftLimit above dimensionHardLimit.
GuardrailConfig ==
    [BaseConfig EXCEPT !.softLimit = 2, !.hardLimit = 1, !.dims = {"A", "B"}]

\* Both limits reached by the second dimension.
RejectConfig ==
    [BaseConfig EXCEPT !.softLimit = 1, !.hardLimit = 1, !.dims = {"A", "B"}]

\* Two atoms per dimension allowed, with two possible field values.
CapConfig ==
    [BaseConfig EXCEPT !.atomsLimit = 2, !.vals = {1, 2}]

\* Construction off the bucket grid, with a minimum bucket size.
PartialStartConfig ==
    [BaseConfig EXCEPT !.startTimeNs = 1, !.minBucketSizeNs = 2]

\* An activation-gated producer with a minimum bucket size.
ActivationConfig ==
    [BaseConfig EXCEPT !.activations = {1}, !.minBucketSizeNs = 1]

\* RANDOM_ONE_SAMPLE on push events, half of them sampled out.
PushRandomOneConfig ==
    [BaseConfig EXCEPT !.samplingType = RANDOM_ONE_SAMPLE, !.atomsLimit = 2,
                       !.samplingPercentage = 50, !.dims = {"A", "B"}]

\* RANDOM_ONE_SAMPLE on a pulled atom with a trigger atom, under an unsliced
\* condition.
PullRandomOneConfig ==
    [BaseConfig EXCEPT !.samplingType = RANDOM_ONE_SAMPLE, !.atomsLimit = 2,
                       !.pullTagId = PullTag, !.triggerAtomId = TriggerAtom,
                       !.conditionIndex = 0,
                       !.initialCondition = kUnknown]

\* FIRST_N_SAMPLES on a pulled atom with a trigger atom and a sliced condition.
PullTriggerConfig ==
    [BaseConfig EXCEPT !.pullTagId = PullTag, !.triggerAtomId = TriggerAtom,
                       !.conditionIndex = 0, !.conditionSliced = TRUE,
                       !.initialCondition = kUnknown]

\* CONDITION_CHANGE_TO_TRUE on a pulled atom without a trigger atom, under an
\* unsliced condition.
PullConditionConfig ==
    [BaseConfig EXCEPT !.samplingType = CONDITION_CHANGE_TO_TRUE,
                       !.pullTagId = PullTag,
                       !.conditionIndex = 0,
                       !.initialCondition = kUnknown]

\* RANDOM_ONE_SAMPLE on a pulled atom without a trigger atom, gated by an
\* activation and an unsliced condition, constructed at the start of the
\* second bucket of the grid.
PullActivationConfig ==
    [BaseConfig EXCEPT !.startTimeNs = 2,
                       !.samplingType = RANDOM_ONE_SAMPLE,
                       !.pullTagId = PullTag,
                       !.conditionIndex = 0,
                       !.initialCondition = kUnknown,
                       !.activations = {1}]

\* RANDOM_ONE_SAMPLE on a pulled atom without a trigger atom, gated by an
\* activation and a sliced condition, constructed at the start of the second
\* bucket of the grid.
PullSlicedConfig ==
    [BaseConfig EXCEPT !.startTimeNs = 2,
                       !.samplingType = RANDOM_ONE_SAMPLE,
                       !.pullTagId = PullTag,
                       !.conditionIndex = 0, !.conditionSliced = TRUE,
                       !.initialCondition = kUnknown,
                       !.activations = {1}]

\* A push producer constructed off the bucket grid, with two possible field
\* values, in a configuration that has two alerts for the metric.
AnomalyConfig ==
    [BaseConfig EXCEPT !.startTimeNs = 1, !.alerts = 2, !.vals = {1, 2}]

InitWith(c) ==
    /\ mTimeBaseNs = c.timeBaseNs
    /\ mBucketSizeNs = c.bucketSizeNs
    /\ mMinBucketSizeNs = c.minBucketSizeNs
    /\ mDimensionSoftLimit = c.softLimit
    /\ mDimensionHardLimit = c.hardLimit
    /\ mGaugeAtomsPerDimensionLimit = c.atomsLimit
    /\ mSamplingType = c.samplingType
    /\ mPullTagId = c.pullTagId
    /\ mTriggerAtomId = c.triggerAtomId
    /\ mConditionSliced = c.conditionSliced
    /\ mSamplingPercentage = c.samplingPercentage
    /\ mMaxPullDelayNs = c.maxPullDelayNs
    /\ mActivationTtlNs = c.activationTtlNs
    /\ mConditionTrackerIndex = c.conditionIndex
    /\ envAlerts = c.alerts
    /\ envDims = c.dims
    /\ envVals = c.vals
    /\ elapsedRealtimeNs = c.startTimeNs
    /\ LET s == Construct(c.startTimeNs,
                          initialCondition(c.conditionIndex, c.initialCondition),
                          c.activations)
       IN /\ mCurrentSlicedBucket = s.mCurrentSlicedBucket
          /\ mPastBuckets = s.mPastBuckets
          /\ mSkippedBuckets = s.mSkippedBuckets
          /\ mCurrentSkippedBucket = s.mCurrentSkippedBucket
          /\ mCurrentBucketNum = s.mCurrentBucketNum
          /\ mCurrentBucketStartTimeNs = s.mCurrentBucketStartTimeNs
          /\ mCondition = s.mCondition
          /\ mIsActive = s.mIsActive
          /\ mHasHitGuardrail = s.mHasHitGuardrail
          /\ mDimensionGuardrailHit = s.mDimensionGuardrailHit
          /\ mEventActivationMap = s.mEventActivationMap
          /\ mAnomalyTrackers = s.mAnomalyTrackers
          /\ mCurrentSlicedBucketForAnomaly = s.mCurrentSlicedBucketForAnomaly
          /\ obs = [path |-> s.obs.path, nPull |-> s.obs.nPull, pull |-> s.obs.pull]
          /\ hist = s.hist

\* ----------------------------------------------------------------- inputs
NoPull == [ok |-> FALSE, delayNs |-> 0, data |-> << >>]

SliceConds == IF mConditionSliced THEN BOOLEAN ELSE {TRUE}

PulledAtoms ==
    [matched : {TRUE}, dim : envDims, val : envVals, sliceCond : SliceConds]

\* An atom of the pulled tag that the what-matcher rejects.
Unmatched == [matched |-> FALSE, dim |-> "A", val |-> 1, sliceCond |-> TRUE]

\* The batches a pull may deliver: every sequence of up to MaxBatch matched
\* atoms, and one holding an atom the what-matcher rejects.
Batches == SeqsUpTo(PulledAtoms, MaxBatch) \cup {<<Unmatched>>}

\* What the puller may answer: a failure, a batch that comes too late, a
\* batch at the largest allowed delay, and every batch without delay.
PullResults ==
    IF ~mIsPulled THEN {NoPull}
    ELSE {NoPull}
         \cup {[ok |-> TRUE, delayNs |-> d,
                data |-> <<[matched |-> TRUE, dim |-> "A", val |-> 1,
                            sliceCond |-> TRUE]>>]
               : d \in {mMaxPullDelayNs, mMaxPullDelayNs + 1}}
         \cup {[ok |-> TRUE, delayNs |-> 0, data |-> b] : b \in Batches}

\* Room for one more operation (the model's cap on the bucket lists).
Room(s) ==
    Len(s.mSkippedBuckets)
      + SumOver([d \in DOMAIN s.mPastBuckets |-> Len(s.mPastBuckets[d])],
                DOMAIN s.mPastBuckets) < MaxBuckets

\* ---------------------------------------------------------------- actions
\* Every entry point is called at the current clock reading; a matched event
\* may carry an older timestamp (up to MaxLate behind the clock).
AdvanceClock ==
    \E t \in (elapsedRealtimeNs + 1)..MaxTime :
        /\ elapsedRealtimeNs' = t
        /\ UNCHANGED <<otherVars, cfgVars, stateVars, obs, hist>>

OnMatchedLogEvent ==
    \E tag \in {WhatAtom} \cup ({mTriggerAtomId} \ {NoTag}),
       ts \in Max(0, elapsedRealtimeNs - MaxLate)..elapsedRealtimeNs,
       sc \in SliceConds,
       keep \in (IF mPullTagId = NoTag /\ mSamplingPercentage < 100
                 THEN BOOLEAN ELSE {TRUE}) :
      \E dim \in (IF tag = WhatAtom THEN envDims ELSE {"A"}),
         val \in (IF tag = WhatAtom THEN envVals ELSE {1}),
         pull \in (IF tag = WhatAtom THEN {NoPull} ELSE PullResults) :
        LET event == [tag |-> tag, dim |-> dim, val |-> val, ts |-> ts,
                      sliceCond |-> sc, keep |-> keep]
            r == onMatchedLogEventLocked(Begin(Self), event, pull)
        IN /\ Room(Self)
           /\ \/ mPullTagId = NoTag
              \/ tag = mTriggerAtomId
           /\ Install([r EXCEPT !.hist.inOrder = @ /\ ts >= elapsedRealtimeNs])
           /\ UNCHANGED <<otherVars, cfgVars, elapsedRealtimeNs>>

OnDataPulled ==
    \E originalPullTimeNs \in Max(0, elapsedRealtimeNs - mMaxPullDelayNs - 1)
                                 ..elapsedRealtimeNs,
       ok \in BOOLEAN :
      \E batch \in (IF ok /\ elapsedRealtimeNs - originalPullTimeNs <= mMaxPullDelayNs
                    THEN Batches ELSE {<<Unmatched>>}),
         stamp \in {originalPullTimeNs, elapsedRealtimeNs} :
        LET allData == [i \in DOMAIN batch |->
                           [matched |-> batch[i].matched, dim |-> batch[i].dim,
                            val |-> batch[i].val, sliceCond |-> batch[i].sliceCond,
                            ts |-> stamp]]
        IN /\ Room(Self)
           /\ mIsPulled /\ isRandomNSamples
           /\ Install([onDataPulled(Begin(Self), allData, ok, originalPullTimeNs,
                                    elapsedRealtimeNs)
                          EXCEPT !.hist.inOrder =
                                     @ /\ (stamp >= elapsedRealtimeNs \/ batch = << >>)])
           /\ UNCHANGED <<otherVars, cfgVars, elapsedRealtimeNs>>

OnConditionChanged ==
    \E conditionMet \in BOOLEAN, pull \in PullResults :
        /\ Room(Self)
        /\ mConditionTrackerIndex >= 0 /\ ~mConditionSliced
        /\ Install(onConditionChangedLocked(Begin(Self), conditionMet,
                                            elapsedRealtimeNs, pull))
        /\ UNCHANGED <<otherVars, cfgVars, elapsedRealtimeNs>>

OnSlicedConditionMayChange ==
    \E overallCondition \in BOOLEAN, pull \in PullResults :
        /\ Room(Self)
        /\ mConditionTrackerIndex >= 0 /\ mConditionSliced
        /\ Install(onSlicedConditionMayChangeLocked(Begin(Self), overallCondition,
                                                    elapsedRealtimeNs, pull))
        /\ UNCHANGED <<otherVars, cfgVars, elapsedRealtimeNs>>

Activate ==
    \E i \in DOMAIN mEventActivationMap, pull \in PullResults :
        /\ Room(Self)
        /\ Install(activateLocked(Begin(Self), i, elapsedRealtimeNs, pull))
        /\ UNCHANGED <<otherVars, cfgVars, elapsedRealtimeNs>>

CancelEventActivation ==
    /\ DOMAIN mEventActivationMap # {}
    /\ Install(cancelEventActivationLocked(Begin(Self), DOMAIN mEventActivationMap))
    /\ UNCHANGED <<otherVars, cfgVars, elapsedRealtimeNs>>

FlushIfExpire ==
    /\ Room(Self)
    /\ DOMAIN mEventActivationMap # {}
    /\ Install(flushIfExpire(Begin(Self), elapsedRealtimeNs))
    /\ UNCHANGED <<otherVars, cfgVars, elapsedRealtimeNs>>

OnDumpReport ==
    \E include_current_partial_bucket \in BOOLEAN, erase_data \in BOOLEAN :
        /\ Room(Self)
        /\ Install(onDumpReportLocked(Begin(Self), elapsedRealtimeNs,
                                      include_current_partial_bucket, erase_data))
        /\ UNCHANGED <<otherVars, cfgVars, elapsedRealtimeNs>>

DropData ==
    /\ Room(Self)
    /\ Install(dropDataLocked(Begin(Self), elapsedRealtimeNs))
    /\ UNCHANGED <<otherVars, cfgVars, elapsedRealtimeNs>>

ClearPastBuckets ==
    /\ Room(Self)
    /\ Install(clearPastBucketsLocked(Begin(Self), elapsedRealtimeNs))
    /\ UNCHANGED <<otherVars, cfgVars, elapsedRealtimeNs>>

\* Called once, after construction and before any other entry point.
PrepareFirstBucket ==
    \E pull \in PullResults :
        /\ hist.lastFlush = "none" /\ mCurrentSlicedBucket = EmptyMap
        /\ obs.path = "none" /\ obs.nPull = 0
        /\ Install(prepareFirstBucketLocked(Begin(Self), pull))
        /\ UNCHANGED <<otherVars, cfgVars, elapsedRealtimeNs>>

\* The config updates the environment tries: one in which every step
\* succeeds, and one for each single step that fails.
UpdatesTried ==
    {u \in ConfigUpdates :
        Cardinality({f \in {"base", "what", "trigger", "condition"} : ~u[f]}) <= 1}

OnConfigUpdated ==
    \E update \in UpdatesTried :
      \E pull \in (IF update = ValidUpdate THEN PullResults ELSE {NoPull}) :
        /\ Room(Self)
        /\ Install(onConfigUpdatedLocked(Begin(Self), update, pull))
        /\ UNCHANGED <<otherVars, cfgVars, elapsedRealtimeNs>>

\* The environment attaches a tracker for an alert of the configuration.
AddAnomalyTracker ==
    /\ mAnomalyTrackers < envAlerts
    /\ Install(addAnomalyTracker(Begin(Self)))
    /\ UNCHANGED <<otherVars, cfgVars, elapsedRealtimeNs>>

\* notifyAppUpgrade with split_bucket_for_app_upgrade set, and
\* onStatsdInitCompleted: both are flushLocked(eventTimeNs).
ForcePartialBucket ==
    /\ Room(Self)
    /\ Install(flushLocked(Begin(Self), elapsedRealtimeNs))
    /\ UNCHANGED <<otherVars, cfgVars, elapsedRealtimeNs>>

Next ==
    \/ AdvanceClock
    \/ OnMatchedLogEvent
    \/ OnDataPulled
    \/ OnConditionChanged
    \/ OnSlicedConditionMayChange
    \/ Activate
    \/ CancelEventActivation
    \/ FlushIfExpire
    \/ OnDumpReport
    \/ DropData
    \/ ClearPastBuckets
    \/ PrepareFirstBucket
    \/ OnConfigUpdated
    \/ ForcePartialBucket
    \/ AddAnomalyTracker

Configs ==
    {GuardrailConfig, RejectConfig, CapConfig, PartialStartConfig, ActivationConfig,
     PushRandomOneConfig, PullRandomOneConfig, PullTriggerConfig,
     PullConditionConfig, PullActivationConfig, PullSlicedConfig, AnomalyConfig}

NoCall ==
    [op |-> "none", matchers |-> << >>, other |-> << >>, values |-> << >>,
     output |-> << >>, result |-> FALSE]

NoThread == 0

Threads == {1, 2}

NoReport == << >>

Idle == [pc |-> "idle", call |-> NoCall, report |-> NoReport]

\* No thread calls the producer concurrently.
NoThreads ==
    /\ mMutex = NoThread
    /\ thread = [t \in Threads |-> Idle]
    /\ serial = [producer |-> NoCall, report |-> [t \in Threads |-> NoReport]]
    /\ calls = 0

Init ==
    /\ \E c \in Configs : InitWith(c)
    /\ fvCall = NoCall
    /\ NoThreads

Spec == Init /\ [][Next]_vars

\* The same producers constructed with gaugeAtomsPerDimensionLimit = 0.
ZeroCapConfigs == {[c EXCEPT !.atomsLimit = 0] : c \in Configs}

InitZeroCap ==
    /\ \E c \in ZeroCapConfigs : InitWith(c)
    /\ fvCall = NoCall
    /\ NoThreads

SpecZeroCap == InitZeroCap /\ [][Next]_vars

\* ------------------------------------------------ field values and matchers
\* A field of an event: the atom tag, the path of field numbers from the atom
\* to the leaf, the occurrence of the repeated field on that path (0 when no
\* field on the path is repeated), whether that occurrence is the last one,
\* and the value. Values are written as strings.
FieldValue(tag, path, index, last, value) ==
    [tag |-> tag, path |-> path, index |-> index, last |-> last, value |-> value]

\* writeAttribution and one more field: field 1 is the attribution chain, a
\* repeated message with leaves 1 (uid) and 2 (tag); field 2 is the name.
makeLogEvent(atomId, attributionUids, attributionTags, name) ==
    LET n == Len(attributionUids)
    IN [k \in 1..(2 * n + 1) |->
           IF k = 2 * n + 1 THEN FieldValue(atomId, <<2>>, 0, FALSE, name)
           ELSE LET i == (k + 1) \div 2
                IN IF k % 2 = 1
                   THEN FieldValue(atomId, <<1, 1>>, i, i = n, attributionUids[i])
                   ELSE FieldValue(atomId, <<1, 2>>, i, i = n, attributionTags[i])]

\* AStatsEvent_writeInt32Array: field 1 is a repeated int.
makeRepeatedIntLogEvent(atomId, intArray) ==
    [k \in 1..Len(intArray) |->
        FieldValue(atomId, <<1>>, k, k = Len(intArray), intArray[k])]

\* A FieldMatcher tree as the tests build it: the atom, its children in
\* order, each with a position ("NONE" when none is set) and its own leaf
\* children (none when the child is a leaf itself).
FieldMatcher(field, child) == [field |-> field, child |-> child]

Child(field, position, child) ==
    [field |-> field, position |-> position, child |-> child]

\* One Matcher per leaf of the tree, depth first.
RECURSIVE translateChildren(_, _, _)
translateChildren(tag, child, k) ==
    IF k > Len(child) THEN << >>
    ELSE LET c == child[k]
             own == IF c.child = << >>
                    THEN <<[tag |-> tag, path |-> <<c.field>>,
                            position |-> c.position]>>
                    ELSE [j \in 1..Len(c.child) |->
                             [tag |-> tag, path |-> <<c.field, c.child[j]>>,
                              position |-> c.position]]
         IN own \o translateChildren(tag, child, k + 1)

translateFieldMatcher(matcher) == translateChildren(matcher.field, matcher.child, 1)

\* Mutant of matches: a LAST selector taken for ALL.
matchesLastAsAll(value, matcher) ==
    /\ value.tag = matcher.tag
    /\ value.path = matcher.path
    /\ IF matcher.position = "NONE" THEN value.index = 0
       ELSE IF matcher.position = "FIRST" THEN value.index = 1
       ELSE value.index >= 1

\* (eventPath & matcher.mask) == matcher.path, on the parts of the path:
\* the tag and the field numbers are compared, and the position selects
\* among the occurrences.
matches(value, matcher) ==
    /\ value.tag = matcher.tag
    /\ value.path = matcher.path
    /\ IF matcher.position = "NONE" THEN value.index = 0
       ELSE IF matcher.position = "FIRST" THEN value.index = 1
       ELSE IF matcher.position = "LAST" THEN value.last
       ELSE value.index >= 1

\* filterValues: one pass over the event's fields; each field is tested
\* against each matcher and appended on a match. False iff a matcher whose
\* position is not ALL found no field.
RECURSIVE filterValuesFrom(_, _, _)
filterValuesFrom(matchers, values, k) ==
    IF k > Len(values) THEN << >>
    ELSE LET Hit(m) == matches(values[k], m)
             hits == SelectSeq(matchers, Hit)
         IN [j \in 1..Len(hits) |-> values[k]]
                \o filterValuesFrom(matchers, values, k + 1)

filterValues(matchers, values) ==
    [output |-> filterValuesFrom(matchers, values, 1),
     result |-> \A i \in DOMAIN matchers :
                   matchers[i].position # "ALL"
                       => \E k \in DOMAIN values : matches(values[k], matchers[i])]

\* The attribution uids and tags of the tests, continued for longer chains.
Uids == <<"1111", "2222", "3333", "4444", "5555">>

Tags == <<"location1", "location2", "location3", "location4", "location5">>

Ints == {"21", "9", "13"}

\* The events filterValues is called with: atom 10 with every length of
\* attribution chain, atom 123 with every int array.
FilterEvents ==
    {makeLogEvent(10, SubSeq(Uids, 1, n), SubSeq(Tags, 1, n), "some value") :
        n \in 0..MaxOccur}
        \cup {makeRepeatedIntLogEvent(123, a) : a \in SeqsUpTo(Ints, MaxOccur)}

\* The selectors filterValues is called with: on atom 10 a position on the
\* attribution chain with one or both leaves, with or without the name
\* field or a field the atom lacks; on atom 123 a position on the array.
FilterMatchers ==
    {FieldMatcher(10, <<Child(1, p, leaves)>> \o rest) :
        p \in {"FIRST", "LAST", "ALL"},
        leaves \in {<<1>>, <<2>>, <<1, 2>>},
        rest \in {<< >>, <<Child(2, "NONE", << >>)>>, <<Child(3, "NONE", << >>)>>}}
        \cup {FieldMatcher(10, <<Child(2, "NONE", << >>)>>)}
        \cup {FieldMatcher(123, <<Child(1, p, << >>)>>) : p \in {"FIRST", "LAST", "ALL"}}

FilterValues ==
    \E matcher \in FilterMatchers, values \in FilterEvents :
        LET matchers == translateFieldMatcher(matcher)
            r == filterValues(matchers, values)
        IN /\ fvCall = NoCall
           /\ fvCall' = [op |-> "filterValues", matchers |-> matchers,
                         other |-> << >>, values |-> values,
                         output |-> r.output, result |-> r.result]
           /\ UNCHANGED <<cfgVars, stateVars, elapsedRealtimeNs, obs, hist,
                          mMutex, thread, serial, calls>>

\* What the tests of filterValues expect: the selector, the event, the
\* output as (path, value) pairs, and whether the test asserts the result.
TestFilter_ALL ==
    [matcher |-> FieldMatcher(10, <<Child(1, "ALL", <<1, 2>>), Child(2, "NONE", << >>)>>),
     values |-> makeLogEvent(10, <<"1111", "2222", "3333">>,
                             <<"location1", "location2", "location3">>, "some value"),
     output |-> << <<<<1, 1>>, "1111">>, <<<<1, 2>>, "location1">>,
                   <<<<1, 1>>, "2222">>, <<<<1, 2>>, "location2">>,
                   <<<<1, 1>>, "3333">>, <<<<1, 2>>, "location3">>,
                   <<<<2>>, "some value">> >>,
     expectTrue |-> FALSE]

TestFilter_FIRST ==
    [matcher |-> FieldMatcher(10, <<Child(1, "FIRST", <<1, 2>>), Child(2, "NONE", << >>)>>),
     values |-> makeLogEvent(10, <<"1111", "2222", "3333">>,
                             <<"location1", "location2", "location3">>, "some value"),
     output |-> << <<<<1, 1>>, "1111">>, <<<<1, 2>>, "location1">>,
                   <<<<2>>, "some value">> >>,
     expectTrue |-> FALSE]

TestFilterRepeated_FIRST ==
    [matcher |-> FieldMatcher(123, <<Child(1, "FIRST", << >>)>>),
     values |-> makeRepeatedIntLogEvent(123, <<"21", "9", "13">>),
     output |-> << <<<<1>>, "21">> >>,
     expectTrue |-> TRUE]

TestFilterRepeated_LAST ==
    [matcher |-> FieldMatcher(123, <<Child(1, "LAST", << >>)>>),
     values |-> makeRepeatedIntLogEvent(123, <<"21", "9", "13">>),
     output |-> << <<<<1>>, "13">> >>,
     expectTrue |-> TRUE]

TestFilterRepeated_ALL ==
    [matcher |-> FieldMatcher(123, <<Child(1, "ALL", << >>)>>),
     values |-> makeRepeatedIntLogEvent(123, <<"21", "9", "13">>),
     output |-> << <<<<1>>, "21">>, <<<<1>>, "9">>, <<<<1>>, "13">> >>,
     expectTrue |-> TRUE]

FilterTests ==
    {TestFilter_ALL, TestFilter_FIRST, TestFilterRepeated_FIRST,
     TestFilterRepeated_LAST, TestFilterRepeated_ALL}

\* Mutant of positionCoveredBy: ANY is covered by ALL as FIRST and LAST are.
positionCoveredByAllCoversAny(a, b) ==
    a = b \/ (b = "ALL" /\ a \in {"FIRST", "LAST", "ANY"})

\* The lattice of positions: FIRST and LAST are below ALL, ANY is below
\* itself only.
positionCoveredBy(a, b) ==
    a = b \/ (b = "ALL" /\ a \in {"FIRST", "LAST"})

\* subsetDimensions: every matcher of dimension_a has a matcher of
\* dimension_b on the same tag and path whose position covers its own.
subsetDimensions(dimension_a, dimension_b) ==
    \A i \in DOMAIN dimension_a :
        \E j \in DOMAIN dimension_b :
            /\ dimension_a[i].tag = dimension_b[j].tag
            /\ dimension_a[i].path = dimension_b[j].path
            /\ positionCoveredBy(dimension_a[i].position, dimension_b[j].position)

\* The selectors of the tests of subsetDimensions.
Plain(tag, fields) ==
    FieldMatcher(tag, [k \in 1..Len(fields) |-> Child(fields[k], "NONE", << >>)])

Repeated(position, leaf) ==
    FieldMatcher(10, <<Child(1, "NONE", << >>), Child(2, position, <<leaf>>)>>)

matchersAll == Repeated("ALL", 1)

matchersFirst == Repeated("FIRST", 1)

matchersLast == Repeated("LAST", 1)

matchersAny == Repeated("ANY", 1)

matchersAllDifferent == Repeated("ALL", 2)

\* What the tests expect of subsetDimensions(a, b).
TestSubsetDimensions1 ==
    LET matcher1 == FieldMatcher(10, <<Child(1, "ALL", <<1, 2>>)>>)
        matcher2 == FieldMatcher(10, <<Child(1, "ALL", <<1>>)>>)
    IN {[a |-> matcher1, b |-> matcher2, expect |-> FALSE],
        [a |-> matcher2, b |-> matcher1, expect |-> TRUE]}

TestSubsetDimensions2 ==
    {[a |-> Plain(10, <<1, 2>>), b |-> Plain(10, <<1, 3>>), expect |-> FALSE]}

TestSubsetDimensions3 ==
    {[a |-> Plain(10, <<1>>), b |-> Plain(5, <<1>>), expect |-> FALSE]}

TestSubsetDimensions4 ==
    {[a |-> Plain(10, <<1, 2>>), b |-> Plain(10, <<1, 2, 3>>), expect |-> TRUE],
     [a |-> Plain(10, <<1, 2, 3>>), b |-> Plain(10, <<1, 2>>), expect |-> FALSE]}

TestSubsetDimensions_RepeatedFields ==
    {[a |-> matchersAll, b |-> matchersAll, expect |-> TRUE],
     [a |-> matchersFirst, b |-> matchersAll, expect |-> TRUE],
     [a |-> matchersLast, b |-> matchersAll, expect |-> TRUE],
     [a |-> matchersAny, b |-> matchersAll, expect |-> FALSE],
     [a |-> matchersAllDifferent, b |-> matchersAll, expect |-> FALSE],
     [a |-> matchersAll, b |-> matchersFirst, expect |-> FALSE],
     [a |-> matchersFirst, b |-> matchersFirst, expect |-> TRUE],
     [a |-> matchersLast, b |-> matchersFirst, expect |-> FALSE],
     [a |-> matchersAny, b |-> matchersFirst, expect |-> FALSE],
     [a |-> matchersAllDifferent, b |-> matchersFirst, expect |-> FALSE],
     [a |-> matchersAll, b |-> matchersLast, expect |-> FALSE],
     [a |-> matchersFirst, b |-> matchersLast, expect |-> FALSE],
     [a |-> matchersLast, b |-> matchersLast, expect |-> TRUE],
     [a |-> matchersAny, b |-> matchersLast, expect |-> FALSE],
     [a |-> matchersAllDifferent, b |-> matchersLast, expect |-> FALSE],
     [a |-> matchersAll, b |-> matchersAny, expect |-> FALSE],
     [a |-> matchersFirst, b |-> matchersAny, expect |-> FALSE],
     [a |-> matchersLast, b |-> matchersAny, expect |-> FALSE],
     [a |-> matchersAny, b |-> matchersAny, expect |-> TRUE],
     [a |-> matchersAllDifferent, b |-> matchersAny, expect |-> FALSE]}

SubsetTests ==
    TestSubsetDimensions1 \cup TestSubsetDimensions2 \cup TestSubsetDimensions3
        \cup TestSubsetDimensions4 \cup TestSubsetDimensions_RepeatedFields

\* The selectors subsetDimensions is called with: those of the tests, and
\* on atoms 10 and 5 every position on field 2 with either leaf, with or
\* without the plain field 1.
SubsetMatchers ==
    {T.a : T \in SubsetTests} \cup {T.b : T \in SubsetTests}
        \cup {FieldMatcher(tag, plain \o <<Child(2, p, <<leaf>>)>>) :
                 tag \in {10, 5},
                 plain \in {<< >>, <<Child(1, "NONE", << >>)>>},
                 p \in {"FIRST", "LAST", "ALL", "ANY"},
                 leaf \in {1, 2}}

SubsetDimensions ==
    \E a \in SubsetMatchers, b \in SubsetMatchers :
        LET dimension_a == translateFieldMatcher(a)
            dimension_b == translateFieldMatcher(b)
        IN /\ fvCall = NoCall
           /\ fvCall' = [op |-> "subsetDimensions", matchers |-> dimension_a,
                         other |-> dimension_b, values |-> << >>, output |-> << >>,
                         result |-> subsetDimensions(dimension_a, dimension_b)]
           /\ UNCHANGED <<cfgVars, stateVars, elapsedRealtimeNs, obs, hist,
                          mMutex, thread, serial, calls>>

NextFieldValue ==
    \/ FilterValues
    \/ SubsetDimensions

InitFieldValue ==
    /\ InitWith(BaseConfig)
    /\ fvCall = NoCall
    /\ NoThreads

SpecFieldValue == InitFieldValue /\ [][NextFieldValue]_vars

\* ---------------------------------------------------- threads and the mutex
\* A pulled RANDOM_ONE_SAMPLE producer with a trigger atom and an unsliced
\* condition that starts true, over two dimensions.
LockConfig ==
    [PullRandomOneConfig EXCEPT !.initialCondition = kTrue, !.dims = {"A", "B"}]

\* A pulled FIRST_N_SAMPLES producer with a trigger atom, a sliced condition
\* and an activation, over two dimensions.
LockSlicedConfig ==
    [PullTriggerConfig EXCEPT !.activations = {1}, !.dims = {"A", "B"}]

\* The calls a thread makes, with the clock's reading as their time. On the
\* producer without activation: a pulled batch of one or two atoms, a dump,
\* dropData, clearPastBuckets, a condition change and a trigger event. On
\* the producer with an activation: activate, cancelEventActivation, a
\* change of the sliced condition, a pulled batch of two atoms and a dump.
\* Calls that pull carry the puller's answer.
PulledAt(dim, timeNs) ==
    [matched |-> TRUE, dim |-> dim, val |-> 1, sliceCond |-> TRUE, ts |-> timeNs]

ThreadCall(op, timeNs, allData, partial, erase, conditionMet) ==
    [op |-> op, timeNs |-> timeNs, allData |-> allData,
     include_current_partial_bucket |-> partial, erase_data |-> erase,
     conditionMet |-> conditionMet,
     pull |-> [ok |-> TRUE, delayNs |-> 0,
               data |-> <<[matched |-> TRUE, dim |-> "A", val |-> 1,
                           sliceCond |-> TRUE]>>]]

ThreadCalls(timeNs) ==
    IF DOMAIN mEventActivationMap = {}
    THEN {ThreadCall("onDataPulled", timeNs, b, FALSE, FALSE, FALSE) :
             b \in {<<PulledAt("A", timeNs)>>,
                    <<PulledAt("A", timeNs), PulledAt("B", timeNs)>>}}
         \cup {ThreadCall("onDumpReport", timeNs, << >>, partial, erase, FALSE) :
                  partial \in BOOLEAN, erase \in BOOLEAN}
         \cup {ThreadCall(op, timeNs, << >>, FALSE, FALSE, FALSE) :
                  op \in {"dropData", "clearPastBuckets", "onMatchedLogEvent"}}
         \cup {ThreadCall("onConditionChanged", timeNs, << >>, FALSE, FALSE, met) :
                  met \in BOOLEAN}
    ELSE {ThreadCall("onDataPulled", timeNs,
                     <<PulledAt("A", timeNs), PulledAt("B", timeNs)>>,
                     FALSE, FALSE, FALSE),
          ThreadCall("onDumpReport", timeNs, << >>, TRUE, TRUE, FALSE)}
         \cup {ThreadCall(op, timeNs, << >>, FALSE, FALSE, FALSE) :
                  op \in {"activate", "cancelEventActivation"}}
         \cup {ThreadCall("onSlicedConditionMayChange", timeNs, << >>, FALSE, FALSE,
                          met) : met \in BOOLEAN}

TriggerEvent(timeNs) ==
    [tag |-> TriggerAtom, dim |-> "A", val |-> 1, ts |-> timeNs,
     sliceCond |-> TRUE, keep |-> TRUE]

\* The handler of a call, whole.
handler(s, c) ==
    IF c.op = "onDataPulled"
    THEN onDataPulled(s, c.allData, TRUE, c.timeNs, c.timeNs)
    ELSE IF c.op = "onDumpReport"
    THEN onDumpReportLocked(s, c.timeNs, c.include_current_partial_bucket, c.erase_data)
    ELSE IF c.op = "dropData" THEN dropDataLocked(s, c.timeNs)
    ELSE IF c.op = "clearPastBuckets" THEN clearPastBucketsLocked(s, c.timeNs)
    ELSE IF c.op = "onConditionChanged"
    THEN onConditionChangedLocked(s, c.conditionMet, c.timeNs, c.pull)
    ELSE IF c.op = "onSlicedConditionMayChange"
    THEN onSlicedConditionMayChangeLocked(s, c.conditionMet, c.timeNs, c.pull)
    ELSE IF c.op = "activate" THEN activateLocked(s, 1, c.timeNs, c.pull)
    ELSE IF c.op = "cancelEventActivation" THEN cancelEventActivationLocked(s, {1})
    ELSE onMatchedLogEventLocked(s, TriggerEvent(c.timeNs), c.pull)

\* One turn of the loop of onDataPulled (lines 505-511).
onDataPulledAtom(s, allData, i) ==
    IF i > Len(allData) \/ ~allData[i].matched THEN s
    ELSE onMatchedLogEventLocked(
             s, [tag |-> WhatAtom, dim |-> allData[i].dim, val |-> allData[i].val,
                 ts |-> allData[i].ts, sliceCond |-> allData[i].sliceCond,
                 keep |-> TRUE], NoPull)

\* The handler of a call up to a point in its middle: the first atom of a
\* batch, the flush of a dump, of dropData and of clearPastBuckets, the
\* assignment of mCondition, the entry of the activation map (all of
\* cancelEventActivation), the checks and the flush of a matched event.
handlerFirstHalf(s, c) ==
    IF c.op = "onDataPulled" THEN onDataPulledAtom(s, c.allData, 1)
    ELSE IF c.op = "onDumpReport"
    THEN [flushForDump(s, c.timeNs, c.include_current_partial_bucket)
             EXCEPT !.hist = NoteReported(@)]
    ELSE IF c.op \in {"dropData", "clearPastBuckets"}
    THEN flushIfNeededLocked(s, c.timeNs)
    ELSE IF c.op \in {"onConditionChanged", "onSlicedConditionMayChange"}
    THEN [s EXCEPT !.mCondition = IF c.conditionMet THEN kTrue ELSE kFalse]
    ELSE IF c.op = "activate"
    THEN [s EXCEPT !.mEventActivationMap[1] =
                       [state |-> kActive, start_ns |-> c.timeNs]]
    ELSE IF c.op = "cancelEventActivation" THEN cancelEventActivationLocked(s, {1})
    ELSE IF ~s.mIsActive \/ s.mCondition # kTrue
            \/ c.timeNs < s.mCurrentBucketStartTimeNs
    THEN s
    ELSE flushIfNeededLocked(s, c.timeNs)

\* The rest of the handler, on the members as it finds them.
handlerSecondHalf(s, c) ==
    IF c.op = "onDataPulled" THEN onDataPulledAtom(s, c.allData, 2)
    ELSE IF c.op = "onDumpReport" THEN dumpAfterFlush(s, c.erase_data)
    ELSE IF c.op = "dropData"
    THEN [s EXCEPT !.mPastBuckets = EmptyMap,
                   !.hist = NoteErased(@, s.mCurrentSlicedBucket)]
    ELSE IF c.op = "clearPastBuckets"
    THEN [s EXCEPT !.mPastBuckets = EmptyMap, !.mSkippedBuckets = << >>,
                   !.hist = NoteErased(@, s.mCurrentSlicedBucket)]
    ELSE IF c.op = "onConditionChanged"
    THEN onConditionChangedLocked(s, c.conditionMet, c.timeNs, c.pull)
    ELSE IF c.op = "onSlicedConditionMayChange"
    THEN onSlicedConditionMayChangeLocked(s, c.conditionMet, c.timeNs, c.pull)
    ELSE IF c.op = "activate"
    THEN IF ~s.mIsActive
         THEN onActiveStateChangedLocked([s EXCEPT !.mIsActive = TRUE],
                                         c.timeNs, TRUE, c.pull)
         ELSE s
    ELSE IF c.op = "cancelEventActivation" THEN s
    ELSE onMatchedLogEventLocked(s, TriggerEvent(c.timeNs), c.pull)

\* Mutant of mutexFree: the mutex lets every thread in.
mutexIgnored(m) == TRUE

\* std::mutex: lock() returns once no thread owns the mutex.
mutexFree(m) == m = NoThread

\* A thread calls an entry point; the arguments are fixed before the mutex
\* is taken.
CallProducer(t) ==
    /\ thread[t].pc = "idle"
    /\ calls < MaxCalls
    /\ \E c \in ThreadCalls(elapsedRealtimeNs) :
          thread' = [thread EXCEPT ![t] = [pc |-> "waiting", call |-> c,
                                           report |-> NoReport]]
    /\ calls' = calls + 1
    /\ UNCHANGED <<cfgVars, stateVars, elapsedRealtimeNs, obs, hist, fvCall,
                   mMutex, serial>>

\* std::lock_guard<std::mutex> lock(mMutex), the first statement of every
\* entry point.
Lock(t) ==
    LET c == thread[t].call
    IN /\ thread[t].pc = "waiting"
       /\ mutexFree(mMutex)
       /\ mMutex' = t
       /\ thread' = [thread EXCEPT ![t].pc = "locked"]
       /\ serial' =
              [producer |-> handler(Begin(serial.producer), c),
               report |->
                   [serial.report EXCEPT
                       ![t] = IF c.op = "onDumpReport"
                              THEN dumpReportProto(serial.producer, c.timeNs,
                                                   c.include_current_partial_bucket)
                              ELSE NoReport]]
       /\ UNCHANGED <<cfgVars, stateVars, elapsedRealtimeNs, obs, hist, fvCall, calls>>

FirstHalf(t) ==
    /\ thread[t].pc = "locked"
    /\ Install(handlerFirstHalf(Begin(Self), thread[t].call))
    /\ thread' = [thread EXCEPT ![t].pc = "half"]
    /\ UNCHANGED <<cfgVars, elapsedRealtimeNs, fvCall, mMutex, serial, calls>>

\* A dump writes its report from the members as they are after its flush.
SecondHalf(t) ==
    /\ thread[t].pc = "half"
    /\ Install(handlerSecondHalf(Self, thread[t].call))
    /\ thread' = [thread EXCEPT
                     ![t].pc = "applied",
                     ![t].report = IF thread[t].call.op = "onDumpReport"
                                   THEN writeReport(Self) ELSE NoReport]
    /\ UNCHANGED <<cfgVars, elapsedRealtimeNs, fvCall, mMutex, serial, calls>>

\* The end of the entry point's scope: the lock_guard releases the mutex.
Unlock(t) ==
    /\ thread[t].pc = "applied"
    /\ mMutex' = NoThread
    /\ thread' = [thread EXCEPT ![t] = Idle]
    /\ UNCHANGED <<cfgVars, stateVars, elapsedRealtimeNs, obs, hist, fvCall,
                   serial, calls>>

NextLock ==
    \/ AdvanceClock
    \/ \E t \in Threads : CallProducer(t)
    \/ \E t \in Threads : Lock(t)
    \/ \E t \in Threads : FirstHalf(t)
    \/ \E t \in Threads : SecondHalf(t)
    \/ \E t \in Threads : Unlock(t)

InitLock ==
    /\ \E c \in {LockConfig, LockSlicedConfig} : InitWith(c)
    /\ fvCall = NoCall
    /\ mMutex = NoThread
    /\ thread = [t \in Threads |-> Idle]
    /\ serial = [producer |-> Self, report |-> [t \in Threads |-> NoReport]]
    /\ calls = 0

SpecLock == InitLock /\ [][NextLock]_vars

\* ============================================================== properties
PastBucketsOf(d) ==
    IF d \in DOMAIN mPastBuckets
    THEN {mPastBuckets[d][i] : i \in DOMAIN mPastBuckets[d]} ELSE {}

AllPastBuckets == UNION {PastBucketsOf(d) : d \in Dims}

AllSkippedBuckets == {mSkippedBuckets[i] : i \in DOMAIN mSkippedBuckets}

InCurrent(d) ==
    IF d \in DOMAIN mCurrentSlicedBucket THEN Len(mCurrentSlicedBucket[d]) ELSE 0

InPast(d) ==
    IF d \in DOMAIN mPastBuckets
    THEN SumOver([i \in DOMAIN mPastBuckets[d] |-> NumTimestamps(mPastBuckets[d][i])],
                 DOMAIN mPastBuckets[d])
    ELSE 0

TimestampsOf(info) ==
    UNION {{info.mAggregatedAtoms[v][j] : j \in DOMAIN info.mAggregatedAtoms[v]}
           : v \in DOMAIN info.mAggregatedAtoms}

Aligned(t) == (t - mTimeBaseNs) % mBucketSizeNs = 0

\* Every matched event the environment can deliver with a timestamp in T.
MatchedEvents(T) ==
    [tag : {WhatAtom} \cup ({mTriggerAtomId} \ {NoTag}), dim : envDims,
     val : envVals, ts : T, sliceCond : SliceConds, keep : BOOLEAN]

\* The members and the history of r are those of s.
SameProducer(r, s) == [r EXCEPT !.obs = s.obs] = s

\* C1: the current sliced bucket never holds more than dimensionHardLimit
\* distinct dimension keys, whatever the two limits are.
C1_DimensionsWithinHardLimit ==
    Cardinality(DOMAIN mCurrentSlicedBucket) <= mDimensionHardLimit

\* C2: in every reachable state, a matched event whose timestamp is below
\* mCurrentBucketStartTimeNs leaves every member unchanged (current, past and
\* skipped buckets, bucket number and start, guardrail flags), closes no
\* bucket and calls the puller zero times, whatever the puller would answer.
C2_LateEventChangesNothing ==
    \A event \in MatchedEvents({ts \in Times : ts < mCurrentBucketStartTimeNs}),
       condition \in BOOLEAN, pull \in PullResults :
        LET r == onMatchedLogEventInternalLocked(Begin(Self), event.dim, condition,
                                                 event, pull)
        IN /\ SameProducer(r, Self)
           /\ r.obs.nFlush = 0
           /\ r.obs.nPull = 0

\* A late event has just been handled by a producer that holds buckets.
C2_Witness ==
    /\ obs.path = "late"
    /\ mIsActive
    /\ mSkippedBuckets # << >> \/ mPastBuckets # EmptyMap

\* C3: while events arrive in timestamp order (and since the last erase of
\* stored buckets), for each dimension the atoms of the current bucket plus
\* the timestamps of its past buckets plus the atoms discarded with too-small
\* buckets equal the appended atoms; and the buckets of a dimension do not
\* overlap: every timestamp lies within its bucket, past buckets follow one
\* another and end no later than the current bucket starts.
C3_BucketAccounting ==
    hist.inOrder =>
        \A d \in Dims :
            /\ InCurrent(d) + InPast(d) + hist.discarded[d] = hist.accepted[d]
            /\ d \in DOMAIN mCurrentSlicedBucket =>
                 \A i \in DOMAIN mCurrentSlicedBucket[d] :
                     mCurrentSlicedBucket[d][i].ts >= mCurrentBucketStartTimeNs
            /\ d \in DOMAIN mPastBuckets =>
                 \A i \in DOMAIN mPastBuckets[d] :
                     LET b == mPastBuckets[d][i]
                     IN /\ \A ts \in TimestampsOf(b) :
                               b.mBucketStartNs <= ts /\ ts <= b.mBucketEndNs
                        /\ b.mBucketEndNs <= mCurrentBucketStartTimeNs
                        /\ i > 1 => mPastBuckets[d][i - 1].mBucketEndNs <= b.mBucketStartNs

\* A dimension with atoms both in a past bucket and in the current bucket.
C3_Witness ==
    /\ hist.inOrder
    /\ \E d \in Dims : InPast(d) >= 1 /\ InCurrent(d) >= 1 /\ hist.accepted[d] >= 2

\* C4: every dimension of the current bucket holds at most
\* mGaugeAtomsPerDimensionLimit atoms, every past bucket holds at most that
\* many timestamps, and the append path adds nothing for a dimension that is
\* already at the cap.
C4_AtomsWithinCap ==
    /\ \A d \in DOMAIN mCurrentSlicedBucket :
           Len(mCurrentSlicedBucket[d]) <= mGaugeAtomsPerDimensionLimit
    /\ \A b \in AllPastBuckets : NumTimestamps(b) <= mGaugeAtomsPerDimensionLimit
    /\ \A d \in DOMAIN mCurrentSlicedBucket, event \in MatchedEvents({elapsedRealtimeNs}) :
           (Len(mCurrentSlicedBucket[d]) >= mGaugeAtomsPerDimensionLimit
              /\ event.dim = d /\ event.tag = WhatAtom)
           => appendGaugeAtom(Self, d, event).mCurrentSlicedBucket
                = mCurrentSlicedBucket

\* An event has just been refused at the cap of its dimension.
C4_Witness ==
    /\ obs.path = "atCap"
    /\ \E d \in DOMAIN mCurrentSlicedBucket :
           Len(mCurrentSlicedBucket[d]) = mGaugeAtomsPerDimensionLimit

\* C5 as stated: mCurrentBucketStartTimeNs is on the bucket grid unless the
\* last flush was a partial bucket (flushLocked).
C5_AlignedUnlessPartial ==
    hist.lastFlush # "partial" => Aligned(mCurrentBucketStartTimeNs)

\* C5 amended: mCurrentBucketStartTimeNs is on the bucket grid whenever the
\* last flush was a full-bucket flush (flushIfNeededLocked); before the first
\* flush it is the constructor's startTimeNs, which need not be on the grid.
C5_AlignedAfterFullFlush ==
    hist.lastFlush = "full" => Aligned(mCurrentBucketStartTimeNs)

\* A full flush has closed a bucket that started off the grid.
C5_Witness ==
    /\ hist.lastFlush = "full"
    /\ \E b \in AllSkippedBuckets \cup
                {[bucketStartTimeNs |-> p.mBucketStartNs] : p \in AllPastBuckets} :
           ~Aligned(b.bucketStartTimeNs)

\* C6: while timestamps are non-decreasing, every past bucket and every
\* skipped bucket ends strictly after it starts.
C6_BucketsEndAfterStart ==
    hist.inOrder =>
        /\ \A b \in AllPastBuckets : b.mBucketEndNs > b.mBucketStartNs
        /\ \A b \in AllSkippedBuckets : b.bucketEndTimeNs > b.bucketStartTimeNs

\* C7: every past bucket lasts at least mMinBucketSizeNs and every skipped
\* bucket lasts less, so no bucket is recorded as both; and one flush never
\* appends to both lists.
C7_PastOrSkipped ==
    /\ \A b \in AllPastBuckets : b.mBucketEndNs - b.mBucketStartNs >= mMinBucketSizeNs
    /\ \A b \in AllSkippedBuckets :
           b.bucketEndTimeNs - b.bucketStartTimeNs < mMinBucketSizeNs
    /\ \A b \in AllPastBuckets, k \in AllSkippedBuckets :
           ~(b.mBucketStartNs = k.bucketStartTimeNs /\ b.mBucketEndNs = k.bucketEndTimeNs)
    /\ \A t \in Times :
           LET r == flushCurrentBucketLocked(Self, t, t)
           IN r.mPastBuckets = mPastBuckets \/ r.mSkippedBuckets = mSkippedBuckets

\* Both lists are in use under a positive minimum bucket size.
C7_Witness ==
    /\ mMinBucketSizeNs > 0
    /\ mSkippedBuckets # << >>
    /\ mPastBuckets # EmptyMap

\* C8: closing a bucket shorter than mMinBucketSizeNs adds nothing to the past
\* buckets and empties the current bucket; an active producer records exactly
\* one skipped bucket with the closed bucket's start and end and the single
\* drop event (BUCKET_TOO_SMALL, event time of the flush); an inactive one
\* records none. Every skipped bucket on record has that shape.
C8_TooSmallBucket ==
    /\ \A t \in Times :
           LET end == Min(t, getCurrentBucketEndTimeNs(Self))
               r == flushCurrentBucketLocked(Self, t, t)
           IN end - mCurrentBucketStartTimeNs < mMinBucketSizeNs =>
                /\ r.mPastBuckets = mPastBuckets
                /\ r.mCurrentSlicedBucket = EmptyMap
                /\ r.mSkippedBuckets =
                      IF mIsActive
                      THEN Append(mSkippedBuckets,
                                  [bucketStartTimeNs |-> mCurrentBucketStartTimeNs,
                                   bucketEndTimeNs |-> end,
                                   dropEvents |->
                                       <<[reason |-> BUCKET_TOO_SMALL,
                                          dropTimeNs |-> t]>>])
                      ELSE mSkippedBuckets
    /\ \A b \in AllSkippedBuckets :
           /\ Len(b.dropEvents) = 1
           /\ b.dropEvents[1].reason = BUCKET_TOO_SMALL

\* A too-small bucket was closed by an active producer and its atoms were
\* discarded.
C8_Witness ==
    /\ mSkippedBuckets # << >>
    /\ mPastBuckets = EmptyMap
    /\ mCurrentSlicedBucket = EmptyMap
    /\ \E d \in Dims : hist.discarded[d] >= 1

\* C9: under RANDOM_ONE_SAMPLE every dimension of the current bucket holds at
\* most one atom.
C9_RandomOneSample ==
    mSamplingType = RANDOM_ONE_SAMPLE =>
        \A d \in DOMAIN mCurrentSlicedBucket : Len(mCurrentSlicedBucket[d]) <= 1

\* A second atom of a dimension has just been refused although the
\* per-dimension cap leaves room for it.
C9_Witness ==
    /\ mSamplingType = RANDOM_ONE_SAMPLE
    /\ obs.path = "randomOne"
    /\ \E d \in DOMAIN mCurrentSlicedBucket :
           Len(mCurrentSlicedBucket[d]) = 1 /\ mGaugeAtomsPerDimensionLimit > 1

\* C10: under RANDOM_ONE_SAMPLE in pull mode, pullAndMatchEventsLocked on a
\* non-empty current bucket does not call the puller and returns the producer
\* as it was, at every timestamp and whatever the puller would answer (so any
\* number of such calls leaves it as it was).
C10_RandomOnePullIdempotent ==
    (mSamplingType = RANDOM_ONE_SAMPLE /\ mIsPulled /\ mCurrentSlicedBucket # EmptyMap)
    => \A t \in Times, pull \in PullResults :
           pullAndMatchEventsLocked(Begin(Self), t, pull) = Begin(Self)

\* A trigger event has just run pullAndMatchEventsLocked on a non-empty bucket:
\* the puller was not called.
C10_Witness ==
    /\ mSamplingType = RANDOM_ONE_SAMPLE /\ mIsPulled
    /\ mCurrentSlicedBucket # EmptyMap
    /\ obs.path = "trigger"
    /\ obs.nPull = 0

DumpArgs == BOOLEAN \X BOOLEAN

\* C11 as stated: after a rejection at the hard dimension limit, the next
\* report of onDumpReport, whenever and however it is asked for, carries
\* dimension_guardrail_hit = true.
C11_NextReportHasGuardrailHit ==
    hist.rejected =>
        \A t \in elapsedRealtimeNs..MaxTime, partial \in BOOLEAN :
            dumpReportProto(Self, t, partial).dimension_guardrail_hit

\* C11 amended: after a rejection the flag is latched; the next report carries
\* dimension_guardrail_hit = true if it lists any past or skipped bucket, and
\* a report that lists none leaves the flag latched for a later report. A key
\* the guardrail refuses is not inserted in the current bucket, so the flush
\* of that bucket gives it no past bucket.
C11_NextNonEmptyReportHasGuardrailHit ==
    /\ hist.rejected =>
         /\ mDimensionGuardrailHit
         /\ \A t \in elapsedRealtimeNs..MaxTime, a \in DumpArgs :
              LET report == dumpReportProto(Self, t, a[1])
                  r == onDumpReportLocked(Self, t, a[1], a[2])
              IN IF report.gauge_metrics # EmptyMap \/ report.skipped # << >>
                 THEN report.dimension_guardrail_hit
                 ELSE r.mDimensionGuardrailHit
    /\ \A event \in MatchedEvents({elapsedRealtimeNs}) :
         LET g == hitGuardRailLocked(Self, event.dim)
             r == appendGaugeAtom(Self, event.dim, event)
             f == flushCurrentBucketLocked(r, elapsedRealtimeNs, elapsedRealtimeNs)
         IN g[2] =>
              /\ event.dim \notin DOMAIN r.mCurrentSlicedBucket
              /\ (event.dim \in DOMAIN f.mPastBuckets) =>
                    (event.dim \in DOMAIN mPastBuckets
                       /\ f.mPastBuckets[event.dim] = mPastBuckets[event.dim])

\* A key has been refused, no report has been made since, and a bucket is on
\* record for the next report.
C11_Witness ==
    /\ hist.rejected
    /\ obs.path # "guardrail"
    /\ mPastBuckets # EmptyMap

\* C12 as stated: after onDumpReport with erase_data = true there is no past
\* bucket, no skipped bucket and the dimension-guardrail-hit flag is false, in
\* whatever state the dump is called; with erase_data = false the three are
\* as the dump's flush left them.
C12_EraseClearsAll ==
    \A t \in elapsedRealtimeNs..MaxTime, partial \in BOOLEAN :
        LET f == flushForDump(Self, t, partial)
            e == onDumpReportLocked(Self, t, partial, TRUE)
            k == onDumpReportLocked(Self, t, partial, FALSE)
        IN /\ e.mPastBuckets = EmptyMap
           /\ e.mSkippedBuckets = << >>
           /\ e.mDimensionGuardrailHit = FALSE
           /\ k.mPastBuckets = f.mPastBuckets
           /\ k.mSkippedBuckets = f.mSkippedBuckets
           /\ k.mDimensionGuardrailHit = f.mDimensionGuardrailHit

\* C12 amended: after onDumpReport with erase_data = true there is no past
\* bucket and no skipped bucket; the dimension-guardrail-hit flag is false if
\* the dump's flush left any past or skipped bucket to report, and otherwise
\* (the dump returns before the erase) it is unchanged. With erase_data =
\* false the three are as the dump's flush left them.
C12_EraseClearsWhatWasReported ==
    \A t \in elapsedRealtimeNs..MaxTime, partial \in BOOLEAN :
        LET f == flushForDump(Self, t, partial)
            e == onDumpReportLocked(Self, t, partial, TRUE)
            k == onDumpReportLocked(Self, t, partial, FALSE)
        IN /\ e.mPastBuckets = EmptyMap
           /\ e.mSkippedBuckets = << >>
           /\ e.mDimensionGuardrailHit =
                 IF f.mPastBuckets = EmptyMap /\ f.mSkippedBuckets = << >>
                 THEN mDimensionGuardrailHit ELSE FALSE
           /\ k.mPastBuckets = f.mPastBuckets
           /\ k.mSkippedBuckets = f.mSkippedBuckets
           /\ k.mDimensionGuardrailHit = f.mDimensionGuardrailHit

\* The flag is set and past buckets are on record: an erasing dump clears
\* both, a dump that does not erase keeps them.
C12_Witness ==
    /\ mDimensionGuardrailHit
    /\ mPastBuckets # EmptyMap
    /\ obs.path = "guardrail"

SoftLimits == 0..3

\* C14: the soft dimension limit does not influence which events are
\* accepted. Two producers that differ only in dimensionSoftLimit and have
\* received the same operations are in the same state until the guardrail
\* answers differently for one event; so in every reachable state and for
\* every key not yet in the current bucket, the guardrail's answer is the
\* same under every other soft limit.
C14_SoftLimitHasNoInfluence ==
    \A newKey \in envDims \ DOMAIN mCurrentSlicedBucket, softLimit \in SoftLimits :
        LET size == Cardinality(DOMAIN mCurrentSlicedBucket)
        IN GuardRailRejects(size, softLimit, mDimensionHardLimit)
             = hitGuardRailLocked(Self, newKey)[2]

\* The position in atoms of the k-th atom whose field values are v.
KthWith(atoms, v, k) ==
    CHOOSE i \in DOMAIN atoms :
        /\ atoms[i].val = v
        /\ Cardinality({j \in 1..i : atoms[j].val = v}) = k

\* C15: when a bucket of sufficient size is flushed, the atoms of one
\* dimension with identical field values are folded into one aggregated-atom
\* entry that lists one timestamp per folded atom in the order the atoms were
\* appended, and atoms with different field values give different entries.
C15_FlushFoldsEqualAtoms ==
    \A t \in elapsedRealtimeNs..MaxTime :
        LET f == flushCurrentBucketLocked(Self, t, t)
            bucketEndTime == Min(t, getCurrentBucketEndTimeNs(Self))
        IN bucketEndTime - mCurrentBucketStartTimeNs >= mMinBucketSizeNs =>
             \A d \in DOMAIN mCurrentSlicedBucket :
                 LET atoms == mCurrentSlicedBucket[d]
                     b == f.mPastBuckets[d][Len(f.mPastBuckets[d])]
                     entries == b.mAggregatedAtoms
                 IN /\ DOMAIN entries = {atoms[i].val : i \in DOMAIN atoms}
                    /\ \A v \in DOMAIN entries :
                          /\ Len(entries[v])
                               = Cardinality({i \in DOMAIN atoms : atoms[i].val = v})
                          /\ \A k \in DOMAIN entries[v] :
                                entries[v][k] = atoms[KthWith(atoms, v, k)].ts
                    /\ NumTimestamps(b) = Len(atoms)

\* One past bucket folds two atoms, appended out of time order, into one
\* entry, and another keeps two atoms with different field values apart.
C15_Witness ==
    /\ \E d \in DOMAIN mPastBuckets : \E i \in DOMAIN mPastBuckets[d] :
          \E v \in DOMAIN mPastBuckets[d][i].mAggregatedAtoms :
             LET stamps == mPastBuckets[d][i].mAggregatedAtoms[v]
             IN Len(stamps) = 2 /\ stamps[1] > stamps[2]
    /\ \E d \in DOMAIN mPastBuckets : \E i \in DOMAIN mPastBuckets[d] :
          Cardinality(DOMAIN mPastBuckets[d][i].mAggregatedAtoms) = 2

\* C16: while timestamps are non-decreasing, every timestamp stored in a
\* past bucket lies inside the bucket's window:
\* mBucketStartNs <= ts < mBucketEndNs.
C16_AtomsInsideBucketWindow ==
    hist.inOrder =>
        \A b \in AllPastBuckets : \A ts \in TimestampsOf(b) :
            b.mBucketStartNs <= ts /\ ts < b.mBucketEndNs

\* Dump times inside the current bucket, not before the clock.
DumpTimesInsideBucket ==
    {t \in elapsedRealtimeNs..MaxTime :
        mCurrentBucketStartTimeNs <= t /\ t < getCurrentBucketEndTimeNs(Self)}

\* C17: a dump with include_current_partial_bucket at a time inside the
\* current bucket closes the current bucket as [mCurrentBucketStartTimeNs,
\* dumpTimeNs) (a past bucket per dimension if it is long enough, a skipped
\* bucket if it is too short and the producer is active), keeps
\* mCurrentBucketNum and leaves an empty current bucket that starts at
\* dumpTimeNs. Without include_current_partial_bucket the current bucket,
\* its start and the recorded buckets are untouched.
C17_DumpClosesPartialBucket ==
    \A t \in DumpTimesInsideBucket :
        LET r == onDumpReportLocked(Self, t, TRUE, FALSE)
            e == onDumpReportLocked(Self, t, TRUE, TRUE)
            k == onDumpReportLocked(Self, t, FALSE, FALSE)
            largeEnough == t - mCurrentBucketStartTimeNs >= mMinBucketSizeNs
        IN /\ \A x \in {r, e} :
                /\ x.mCurrentSlicedBucket = EmptyMap
                /\ x.mCurrentBucketStartTimeNs = t
                /\ x.mCurrentBucketNum = mCurrentBucketNum
           /\ largeEnough =>
                /\ r.mSkippedBuckets = mSkippedBuckets
                /\ DOMAIN r.mPastBuckets
                      = DOMAIN mPastBuckets \cup DOMAIN mCurrentSlicedBucket
                /\ \A d \in DOMAIN r.mPastBuckets :
                      LET old == IF d \in DOMAIN mPastBuckets
                                 THEN mPastBuckets[d] ELSE << >>
                          new == r.mPastBuckets[d]
                      IN IF d \in DOMAIN mCurrentSlicedBucket
                         THEN /\ Len(new) = Len(old) + 1
                              /\ SubSeq(new, 1, Len(old)) = old
                              /\ new[Len(new)].mBucketStartNs = mCurrentBucketStartTimeNs
                              /\ new[Len(new)].mBucketEndNs = t
                              /\ NumTimestamps(new[Len(new)])
                                    = Len(mCurrentSlicedBucket[d])
                         ELSE new = old
           /\ ~largeEnough =>
                /\ r.mPastBuckets = mPastBuckets
                /\ IF mIsActive
                   THEN /\ Len(r.mSkippedBuckets) = Len(mSkippedBuckets) + 1
                        /\ SubSeq(r.mSkippedBuckets, 1, Len(mSkippedBuckets))
                              = mSkippedBuckets
                        /\ LET b == r.mSkippedBuckets[Len(r.mSkippedBuckets)]
                           IN /\ b.bucketStartTimeNs = mCurrentBucketStartTimeNs
                              /\ b.bucketEndTimeNs = t
                   ELSE r.mSkippedBuckets = mSkippedBuckets
           /\ k.mCurrentSlicedBucket = mCurrentSlicedBucket
           /\ k.mCurrentBucketStartTimeNs = mCurrentBucketStartTimeNs
           /\ k.mCurrentBucketNum = mCurrentBucketNum
           /\ k.mPastBuckets = mPastBuckets
           /\ k.mSkippedBuckets = mSkippedBuckets

\* The clock is strictly inside a current bucket that holds atoms, and the
\* dump with include_current_partial_bucket records it as a past bucket.
C17_Witness ==
    /\ mCurrentSlicedBucket # EmptyMap
    /\ mCurrentBucketStartTimeNs < elapsedRealtimeNs
    /\ elapsedRealtimeNs \in DumpTimesInsideBucket
    /\ onDumpReportLocked(Self, elapsedRealtimeNs, TRUE, FALSE).mPastBuckets
          # mPastBuckets
    /\ onDumpReportLocked(Self, elapsedRealtimeNs, FALSE, FALSE).mPastBuckets
          = mPastBuckets

\* Event and pull times an entry point may be given at the current clock.
RecentTimes == Max(0, elapsedRealtimeNs - MaxLate)..elapsedRealtimeNs

\* Pulls that do not succeed: the puller reports failure, or its answer
\* comes later than mMaxPullDelayNs; with an empty batch or one atom.
FailedPulls ==
    LET data == {b \in Batches : Len(b) <= 1}
    IN {[ok |-> FALSE, delayNs |-> 0, data |-> b] : b \in data}
         \cup {[ok |-> TRUE, delayNs |-> mMaxPullDelayNs + 1, data |-> b] : b \in data}

\* The batches onDataPulled may be handed, each atom carrying a timestamp.
StampedBatches ==
    {[i \in DOMAIN b |-> [matched |-> b[i].matched, dim |-> b[i].dim,
                          val |-> b[i].val, sliceCond |-> b[i].sliceCond,
                          ts |-> stamp]]
       : b \in Batches, stamp \in RecentTimes}

\* r holds the buckets of s: current, past and skipped.
SameBuckets(r, s) ==
    /\ r.mCurrentSlicedBucket = s.mCurrentSlicedBucket
    /\ r.mPastBuckets = s.mPastBuckets
    /\ r.mSkippedBuckets = s.mSkippedBuckets

\* C18: a pull that does not succeed appends nothing and abandons nothing.
\* A failed or too late pull in pullAndMatchEventsLocked leaves the current,
\* past and skipped buckets as they were before the pull (for a trigger
\* event: as flushIfNeededLocked left them); onDataPulled with a result other
\* than success, with an empty batch, or later than mMaxPullDelayNs after the
\* original pull time changes no member at all.
C18_FailedPullKeepsBuckets ==
    mIsPulled =>
    /\ \A pull \in FailedPulls :
          /\ \A t \in RecentTimes :
                SameBuckets(pullAndMatchEventsLocked(Self, t, pull), Self)
          /\ mTriggerAtomId # NoTag =>
                \A ts \in RecentTimes, sc \in SliceConds :
                    LET event == [tag |-> mTriggerAtomId, dim |-> "A", val |-> 1,
                                  ts |-> ts, sliceCond |-> sc, keep |-> TRUE]
                        r == onMatchedLogEventLocked(Begin(Self), event, pull)
                    IN IF r.obs.path = "trigger"
                       THEN SameBuckets(r, flushIfNeededLocked(Self, ts))
                       ELSE SameBuckets(r, Self)
    /\ \A allData \in StampedBatches, ok \in BOOLEAN,
          originalPullTimeNs \in Max(0, elapsedRealtimeNs - mMaxPullDelayNs - 1)
                                    ..elapsedRealtimeNs :
          (~ok \/ allData = << >>
               \/ elapsedRealtimeNs - originalPullTimeNs > mMaxPullDelayNs) =>
              SameProducer(onDataPulled(Self, allData, ok, originalPullTimeNs,
                                        elapsedRealtimeNs), Self)

\* A trigger event has called the puller, the answer came too late, and the
\* atoms the current bucket held are still there.
C18_Witness ==
    /\ obs.path = "trigger"
    /\ obs.nPull = 1
    /\ obs.pull = "tooLate"
    /\ mCurrentSlicedBucket # EmptyMap

\* The gauge atoms a bucket holds for dimension d.
AtomsOf(bucket, d) ==
    IF d \in DOMAIN bucket THEN {bucket[d][i] : i \in DOMAIN bucket[d]} ELSE {}

\* C19: a successful, non-empty onDataPulled that is not too late records
\* every atom it appends with originalPullTimeNs as its event time, whatever
\* timestamp the atom carries.
C19_PulledAtomsAtOriginalPullTime ==
    mIsPulled =>
        \A allData \in StampedBatches \ {<< >>},
           originalPullTimeNs \in RecentTimes :
            elapsedRealtimeNs - originalPullTimeNs <= mMaxPullDelayNs =>
                LET r == onDataPulled(Self, allData, TRUE, originalPullTimeNs,
                                      elapsedRealtimeNs)
                IN \A d \in DOMAIN r.mCurrentSlicedBucket :
                       \A atom \in AtomsOf(r.mCurrentSlicedBucket, d)
                                     \ AtomsOf(mCurrentSlicedBucket, d) :
                           atom.ts = originalPullTimeNs

\* The matched events whose atom id is the trigger atom id.
TriggerEvents ==
    IF mTriggerAtomId = NoTag THEN {}
    ELSE [tag : {mTriggerAtomId}, dim : {"A"}, val : {1}, ts : RecentTimes,
          sliceCond : SliceConds, keep : {TRUE}]

\* C20: a matched event with the trigger atom id never becomes a gauge atom.
\* If it passes the active, condition and late checks it causes
\* flushIfNeededLocked and at most one call of the puller; otherwise it
\* changes no bucket. Every atom it adds to the current bucket comes after
\* the atoms already there, carries the trigger's event time, and has the
\* dimension and field values of a matched atom the puller returned in a
\* successful pull that was not too late.
C20_TriggerOnlyPulls ==
    \A event \in TriggerEvents, pull \in PullResults :
        LET r == onMatchedLogEventLocked(Begin(Self), event, pull)
            f == flushIfNeededLocked(Self, event.ts)
            base == IF r.obs.path = "trigger" THEN f ELSE Self
            pulled == pull.ok /\ pull.delayNs <= mMaxPullDelayNs /\ r.obs.nPull = 1
        IN /\ r.obs.nPull <= 1
           /\ r.obs.nPull = 1 => r.obs.path = "trigger"
           /\ r.mPastBuckets = base.mPastBuckets
           /\ r.mSkippedBuckets = base.mSkippedBuckets
           /\ DOMAIN base.mCurrentSlicedBucket \subseteq DOMAIN r.mCurrentSlicedBucket
           /\ \A d \in DOMAIN r.mCurrentSlicedBucket :
                 LET old == IF d \in DOMAIN base.mCurrentSlicedBucket
                            THEN base.mCurrentSlicedBucket[d] ELSE << >>
                     new == r.mCurrentSlicedBucket[d]
                 IN /\ Len(new) >= Len(old)
                    /\ SubSeq(new, 1, Len(old)) = old
                    /\ \A i \in (Len(old) + 1)..Len(new) :
                          /\ pulled
                          /\ new[i].ts = event.ts
                          /\ \E j \in DOMAIN pull.data :
                                /\ pull.data[j].matched
                                /\ pull.data[j].dim = d
                                /\ pull.data[j].val = new[i].val
                    /\ (d \notin DOMAIN base.mCurrentSlicedBucket) => pulled

\* A trigger event has called the puller once, the pull succeeded in time,
\* and the current bucket holds a pulled atom.
C20_Witness ==
    /\ obs.path = "trigger"
    /\ obs.nPull = 1
    /\ obs.pull = "done"
    /\ \E d \in DOMAIN mCurrentSlicedBucket : Len(mCurrentSlicedBucket[d]) >= 1

\* C21: under CONDITION_CHANGE_TO_TRUE in pull mode, onConditionChanged calls
\* the puller exactly when the condition goes from not true to true; a
\* notification that leaves the condition true, or sets it false, does not
\* pull.
C21_PullOnlyOnChangeToTrue ==
    (mSamplingType = CONDITION_CHANGE_TO_TRUE /\ mIsPulled) =>
        \A conditionMet \in BOOLEAN, pull \in PullResults :
            LET r == onConditionChangedLocked(Begin(Self), conditionMet,
                                              elapsedRealtimeNs, pull)
            IN (r.obs.nPull >= 1) <=> (mCondition # kTrue /\ conditionMet)

\* The matched events the producer is sent: events of the what atom for a
\* pushed metric, trigger events for a pulled one.
PushEvents ==
    IF mPullTagId = NoTag
    THEN [tag : {WhatAtom}, dim : envDims, val : envVals, ts : RecentTimes,
          sliceCond : SliceConds, keep : BOOLEAN]
    ELSE {}

\* r has accepted an atom that s had not.
Appended(r, s) == r.hist.accepted # s.hist.accepted

\* The condition under which r may have accepted atoms of the given events:
\* the wizard's answer for one of them when the condition is sliced,
\* mCondition otherwise.
ConditionTrueFor(r, events) ==
    IF mConditionSliced THEN \E i \in DOMAIN events : events[i].sliceCond
    ELSE r.mCondition = kTrue

\* C22: no operation appends an atom while the producer is inactive or while
\* the condition evaluated for the event is not true. For a push event, a
\* trigger event with its pull, a pull started by a condition notification
\* and onDataPulled: if the operation accepts an atom, the producer is
\* active and the condition of an event it was given is true.
C22_AppendOnlyActiveAndConditionTrue ==
    /\ \A event \in PushEvents :
          LET r == onMatchedLogEventLocked(Begin(Self), event, NoPull)
          IN Appended(r, Self) =>
                 mIsActive /\ ConditionTrueFor(Self, <<event>>)
    /\ \A event \in TriggerEvents, pull \in PullResults :
          LET r == onMatchedLogEventLocked(Begin(Self), event, pull)
          IN Appended(r, Self) =>
                 /\ mIsActive
                 /\ ConditionTrueFor(Self, <<event>>)
                 /\ ConditionTrueFor(Self, pull.data)
    /\ mIsPulled =>
          /\ \A allData \in StampedBatches, originalPullTimeNs \in RecentTimes :
                LET r == onDataPulled(Self, allData, TRUE, originalPullTimeNs,
                                      elapsedRealtimeNs)
                IN Appended(r, Self) =>
                       mIsActive /\ ConditionTrueFor(Self, allData)
          /\ \A conditionMet \in BOOLEAN, pull \in PullResults :
                LET r == IF mConditionSliced
                         THEN onSlicedConditionMayChangeLocked(
                                  Begin(Self), conditionMet, elapsedRealtimeNs, pull)
                         ELSE onConditionChangedLocked(
                                  Begin(Self), conditionMet, elapsedRealtimeNs, pull)
                IN Appended(r, Self) =>
                       /\ mIsActive /\ conditionMet
                       /\ ConditionTrueFor(r, pull.data)

\* A producer that accepted atoms while active is inactive now and has just
\* turned an event away.
C22_Witness ==
    /\ ~mIsActive
    /\ obs.path = "inactive"
    /\ \E d \in Dims : hist.accepted[d] >= 1

\* C23: when the producer becomes inactive at time t the current bucket is
\* flushed as of t: the current sliced bucket is empty, the next bucket starts
\* at t and the puller is not called. When an inactive producer becomes
\* active at t, the puller is called, once and for time t, exactly if
\* mCondition is kTrue and the producer is pulled with random-N sampling;
\* with mCondition kFalse or kUnknown no bucket changes.
C23_ActiveStateEdges ==
    /\ mIsActive =>
          \A pull \in PullResults :
              LET r == onActiveStateChangedLocked(Begin(Self), elapsedRealtimeNs,
                                                  FALSE, pull)
                  e == flushIfExpire(Begin(Self), elapsedRealtimeNs)
              IN /\ r.mCurrentSlicedBucket = EmptyMap
                 /\ r.mCurrentBucketStartTimeNs = elapsedRealtimeNs
                 /\ r.obs.nPull = 0
                 /\ ~e.mIsActive =>
                       /\ e.mCurrentSlicedBucket = EmptyMap
                       /\ e.mCurrentBucketStartTimeNs = elapsedRealtimeNs
                       /\ e.obs.nPull = 0
    /\ ~mIsActive =>
          \A i \in DOMAIN mEventActivationMap, pull \in PullResults :
              LET r == activateLocked(Begin(Self), i, elapsedRealtimeNs, pull)
                  wanted == mCondition = kTrue /\ mIsPulled /\ isRandomNSamples
              IN /\ r.mIsActive
                 /\ r.obs.nPull = (IF wanted THEN 1 ELSE 0)
                 /\ ~wanted =>
                       /\ SameBuckets(r, Self)
                       /\ r.mCurrentBucketStartTimeNs = mCurrentBucketStartTimeNs
                 /\ \A d \in DOMAIN r.mCurrentSlicedBucket :
                       \A atom \in AtomsOf(r.mCurrentSlicedBucket, d) :
                           atom.ts = elapsedRealtimeNs

\* A pulled producer with a true condition has been deactivated, its bucket
\* was closed as a partial bucket, and its activation would pull.
C23_Witness ==
    /\ ~mIsActive
    /\ DOMAIN mEventActivationMap # {}
    /\ mIsPulled /\ isRandomNSamples
    /\ mCondition = kTrue
    /\ hist.lastFlush = "partial"
    /\ mPastBuckets # EmptyMap
    /\ mCurrentBucketStartTimeNs = elapsedRealtimeNs

\* C26: dropData at a time inside the current bucket empties mPastBuckets
\* and changes nothing else: the current sliced bucket, its start time and
\* number, the skipped buckets, the skipped-bucket accumulator, both
\* guardrail flags, the condition and the activation state stay as they are.
C26_DropDataKeepsCurrentBucket ==
    \A t \in DumpTimesInsideBucket :
        LET r == dropDataLocked(Self, t)
        IN /\ r.mPastBuckets = EmptyMap
           /\ [r EXCEPT !.mPastBuckets = mPastBuckets, !.hist = hist, !.obs = Self.obs]
                = Self

\* The producer holds past buckets, a skipped bucket or the guardrail flag,
\* and atoms in the current bucket, and dropData removes the past buckets.
C26_Witness ==
    /\ mCurrentSlicedBucket # EmptyMap
    /\ mPastBuckets # EmptyMap
    /\ mSkippedBuckets # << >> \/ mDimensionGuardrailHit
    /\ elapsedRealtimeNs \in DumpTimesInsideBucket
    /\ dropDataLocked(Self, elapsedRealtimeNs).mPastBuckets = EmptyMap

C28_BucketNumIsGridBucket ==
    \A t \in elapsedRealtimeNs..MaxTime, partial \in BOOLEAN :
        LET report == dumpReportProto(Self, t, partial)
        IN /\ DOMAIN report.bucket_info = DOMAIN report.gauge_metrics
           /\ \A d \in DOMAIN report.gauge_metrics :
                 /\ DOMAIN report.bucket_info[d] = DOMAIN report.gauge_metrics[d]
                 /\ \A i \in DOMAIN report.gauge_metrics[d] :
                       LET b == report.gauge_metrics[d][i]
                           written == report.bucket_info[d][i]
                       IN IF b.mBucketEndNs - b.mBucketStartNs = mBucketSizeNs
                          THEN /\ DOMAIN written = {"bucket_num"}
                               /\ written["bucket_num"] >= 0
                               /\ b.mBucketStartNs
                                     = mTimeBaseNs + written["bucket_num"] * mBucketSizeNs
                               /\ b.mBucketEndNs
                                     = mTimeBaseNs
                                         + (written["bucket_num"] + 1) * mBucketSizeNs
                          ELSE /\ DOMAIN written = {"start_bucket_elapsed_millis",
                                                    "end_bucket_elapsed_millis"}
                               /\ written["start_bucket_elapsed_millis"] = b.mBucketStartNs
                               /\ written["end_bucket_elapsed_millis"] = b.mBucketEndNs

\* The producer holds a partial past bucket and the full past bucket of the
\* second grid bucket: a report writes the first with its times and the
\* second with bucket_num 1.
C28_Witness ==
    /\ \E b \in AllPastBuckets :
          /\ b.mBucketEndNs - b.mBucketStartNs = mBucketSizeNs
          /\ bucketInfoProto(b)["bucket_num"] = 1
    /\ \E b \in AllPastBuckets :
          /\ b.mBucketEndNs - b.mBucketStartNs # mBucketSizeNs
          /\ "bucket_num" \notin DOMAIN bucketInfoProto(b)

\* The (path, value) pairs of a sequence of field values.
Leaves(values) == [k \in DOMAIN values |-> <<values[k].path, values[k].value>>]

\* The fields of an output that lie on one matcher's path.
OnPath(output, matcher) ==
    LET Same(v) == v.tag = matcher.tag /\ v.path = matcher.path
    IN SelectSeq(output, Same)

\* C29: the output of filterValues is the event's fields that some matcher
\* matches, in the event's order; on a FIRST selector's path it holds only
\* the first occurrence, on a LAST selector's only the last, on an ALL
\* selector's every occurrence, so that n occurrences under k selected
\* leaves give n * k fields; it returns true when every matcher is matched
\* by a field; and it gives what the tests expect.
C29_FilterKeepsMatchedInEventOrder ==
    /\ fvCall.op = "filterValues" =>
          LET matchers == fvCall.matchers
              values == fvCall.values
              output == fvCall.output
              Matched(v) == \E i \in DOMAIN matchers :
                               /\ v.tag = matchers[i].tag
                               /\ v.path = matchers[i].path
                               /\ \/ matchers[i].position = "NONE"
                                  \/ matchers[i].position = "FIRST" /\ v.index = 1
                                  \/ matchers[i].position = "LAST" /\ v.last
                                  \/ matchers[i].position = "ALL"
              occurrences == Cardinality({values[k].index : k \in DOMAIN values} \ {0})
              selected == {i \in DOMAIN matchers : matchers[i].position = "ALL"}
              repeated == LET Rep(v) == v.index > 0 IN SelectSeq(output, Rep)
          IN /\ output = SelectSeq(values, Matched)
             /\ \A i \in DOMAIN matchers :
                   LET mine == OnPath(output, matchers[i])
                   IN /\ matchers[i].position = "FIRST" =>
                            /\ Len(mine) <= 1
                            /\ \A k \in DOMAIN mine : mine[k].index = 1
                      /\ matchers[i].position = "LAST" =>
                            /\ Len(mine) <= 1
                            /\ \A k \in DOMAIN mine : mine[k].last
                      /\ matchers[i].position = "ALL" =>
                            mine = OnPath(values, matchers[i])
             /\ (selected # {} /\ \A i \in selected : OnPath(values, matchers[i]) # << >>)
                   => Len(repeated) = occurrences * Cardinality(selected)
             /\ (\A i \in DOMAIN matchers : OnPath(output, matchers[i]) # << >>)
                   => fvCall.result
    /\ \A T \in FilterTests :
          LET r == filterValues(translateFieldMatcher(T.matcher), T.values)
          IN /\ Leaves(r.output) = T.output
             /\ T.expectTrue => r.result

\* filterValues was called with an ALL selector with two leaves and the
\* name field on an event with three occurrences: six fields and the name
\* came out.
C29_Witness ==
    /\ fvCall.op = "filterValues"
    /\ Len(fvCall.matchers) = 3
    /\ fvCall.matchers[1].position = "ALL"
    /\ Len(fvCall.values) = 7
    /\ Len(fvCall.output) = 7
    /\ fvCall.result

\* The positions that cover a position, as a table.
C30_Covers ==
    {<<"NONE", "NONE">>, <<"ANY", "ANY">>, <<"ALL", "ALL">>,
     <<"FIRST", "FIRST">>, <<"FIRST", "ALL">>,
     <<"LAST", "LAST">>, <<"LAST", "ALL">>}

\* C30: subsetDimensions(A, B) is true exactly when every matcher of A has a
\* matcher of B on the same tag and path whose position covers its own
\* (ALL covers FIRST, LAST and ALL; FIRST, LAST and ANY cover themselves
\* only); it is reflexive, false when the tags differ and false when A has a
\* field B lacks; and it gives what the tests expect.
C30_SubsetIsCoverage ==
    /\ fvCall.op = "subsetDimensions" =>
          LET A == fvCall.matchers
              B == fvCall.other
          IN /\ fvCall.result
                   = \A i \in DOMAIN A :
                        \E j \in DOMAIN B :
                            /\ A[i].tag = B[j].tag
                            /\ A[i].path = B[j].path
                            /\ <<A[i].position, B[j].position>> \in C30_Covers
             /\ A = B => fvCall.result
             /\ (A # << >> /\ B # << >> /\ A[1].tag # B[1].tag) => ~fvCall.result
             /\ (\E i \in DOMAIN A : \A j \in DOMAIN B : A[i].path # B[j].path)
                   => ~fvCall.result
    /\ \A T \in SubsetTests :
          subsetDimensions(translateFieldMatcher(T.a), translateFieldMatcher(T.b))
              = T.expect

\* subsetDimensions said yes for a FIRST selector under an ALL selector.
C30_Witness ==
    /\ fvCall.op = "subsetDimensions"
    /\ fvCall.result
    /\ \E i \in DOMAIN fvCall.matchers :
          /\ fvCall.matchers[i].position = "FIRST"
          /\ \E j \in DOMAIN fvCall.other :
                /\ fvCall.other[j].path = fvCall.matchers[i].path
                /\ fvCall.other[j].position = "ALL"

\* The threads inside an entry point, between taking the mutex and
\* releasing it.
Inside == {t \in Threads : thread[t].pc \in {"locked", "half", "applied"}}

\* C24: at most one thread is inside an entry point of the producer, and it
\* owns the mutex; whenever the mutex is unlocked the members are what the
\* calls made so far give when run whole, one after the other, in the order
\* they took the mutex; and the report a dump writes is the report of that
\* sequential order, so it shows no half-applied flush and no part of a
\* pulled batch.
C24_OperationsAreAtomic ==
    /\ Cardinality(Inside) <= 1
    /\ \A t \in Inside : mMutex = t
    /\ mMutex = NoThread => SameProducer(Self, serial.producer)
    /\ \A t \in Threads :
          (thread[t].pc = "applied" /\ thread[t].call.op = "onDumpReport")
              => thread[t].report = serial.report[t]

\* A dump has written a report with a past bucket while the other thread
\* waits for the mutex with a batch of two pulled atoms.
C24_Witness ==
    \E t \in Threads, u \in Threads :
        /\ thread[t].pc = "applied"
        /\ thread[t].call.op = "onDumpReport"
        /\ thread[t].report.gauge_metrics # EmptyMap
        /\ thread[u].pc = "waiting"
        /\ thread[u].call.op = "onDataPulled"
        /\ Len(thread[u].call.allData) = 2

\* C31: flushIfNeededLocked at a time before the full end of the current
\* bucket changes nothing. At any other time t it closes the current bucket,
\* adds 1 + (t - end) div mBucketSizeNs to mCurrentBucketNum, and leaves
\* mCurrentBucketStartTimeNs = mTimeBaseNs + mCurrentBucketNum * mBucketSizeNs
\* with mCurrentBucketStartTimeNs <= t < mCurrentBucketStartTimeNs + mBucketSizeNs.
C31_FlushIfNeededMovesToGridBucket ==
    \A t \in Times :
        LET end == getCurrentBucketEndTimeNs(Self)
            r == flushIfNeededLocked(Self, t)
        IN IF t < end
           THEN r = Self
           ELSE /\ r.obs.nFlush = Self.obs.nFlush + 1
                /\ r.mCurrentSlicedBucket = EmptyMap
                /\ r.mCurrentBucketNum
                      = mCurrentBucketNum + 1 + (t - end) \div mBucketSizeNs
                /\ r.mCurrentBucketStartTimeNs
                      = mTimeBaseNs + r.mCurrentBucketNum * mBucketSizeNs
                /\ r.mCurrentBucketStartTimeNs <= t
                /\ t < r.mCurrentBucketStartTimeNs + mBucketSizeNs

\* A bucket that started off the grid holds atoms, and a flush at the last
\* instant moves the producer two buckets forward, onto the grid.
C31_Witness ==
    /\ mCurrentSlicedBucket # EmptyMap
    /\ ~Aligned(mCurrentBucketStartTimeNs)
    /\ LET r == flushIfNeededLocked(Self, MaxTime)
       IN /\ r.mCurrentBucketNum = mCurrentBucketNum + 2
          /\ r.mCurrentBucketStartTimeNs = MaxTime
          /\ r.mPastBuckets # mPastBuckets \/ r.mSkippedBuckets # mSkippedBuckets

\* The last operation entered pullAndMatchEventsLocked: it called the puller,
\* or it was a trigger event (line 564).
PullEntered == obs.nPull > 0 \/ obs.path = "trigger"

\* C32: pullAndMatchEventsLocked is entered only while the producer is active
\* and mCondition is kTrue, on every path: condition notifications,
\* activation, config update, prepareFirstBucket and trigger events, those of
\* a producer with a sliced condition included.
C32_PullOnlyActiveAndConditionTrue ==
    PullEntered => mIsActive /\ mCondition = kTrue

\* The same for the producers whose condition is not sliced.
C32_UnslicedPullOnlyActiveAndConditionTrue ==
    PullEntered /\ ~mConditionSliced => mIsActive /\ mCondition = kTrue

C34_Projection ==
    LET filled == {d \in DOMAIN mCurrentSlicedBucket : mCurrentSlicedBucket[d] # << >>}
    IN [d \in (DOMAIN mCurrentSlicedBucketForAnomaly) \cup filled |->
           IF d \in filled THEN mCurrentSlicedBucket[d][1].val
           ELSE mCurrentSlicedBucketForAnomaly[d]]

\* C34: with anomaly trackers attached, a flush calls addPastBucket on every
\* tracker exactly when its event time is strictly after the full end of the
\* bucket it closes, with the projection and with mCurrentBucketNum as it is
\* before the flush advances it, and the producer's projection map starts
\* empty again. A partial flush, and a flush at the very end of the bucket,
\* call no tracker and keep the projection in the producer's map.
C34_AnomalyTrackersGetFullBuckets ==
    mAnomalyTrackers > 0 =>
        \A t \in elapsedRealtimeNs..MaxTime :
            LET end == getCurrentBucketEndTimeNs(Self)
                b == Begin(Self)
                full == flushIfNeededLocked(b, t)
                partial == flushLocked(b, t)
                toEvery == [k \in 1..mAnomalyTrackers |->
                               [tracker |-> k, bucket |-> C34_Projection,
                                bucketNum |-> mCurrentBucketNum]]
            IN /\ t > end =>
                     /\ full.obs.addPastBucket = toEvery
                     /\ full.mCurrentSlicedBucketForAnomaly = EmptyMap
                     /\ full.mCurrentBucketNum > mCurrentBucketNum
                     /\ partial.obs.addPastBucket = toEvery
                     /\ partial.mCurrentSlicedBucketForAnomaly = EmptyMap
               /\ t = end =>
                     /\ full.obs.nFlush = 1
                     /\ full.obs.addPastBucket = << >>
                     /\ full.mCurrentSlicedBucketForAnomaly = C34_Projection
                     /\ partial.obs.addPastBucket = << >>
                     /\ partial.mCurrentSlicedBucketForAnomaly = C34_Projection
               /\ t < end =>
                     /\ full = b
                     /\ partial.obs.nFlush = 1
                     /\ partial.obs.addPastBucket = << >>
                     /\ partial.mCurrentSlicedBucketForAnomaly = C34_Projection

\* After a partial flush the producer still holds the projection of the
\* bucket part it closed; its current bucket holds an atom with another
\* value, and a flush at the last instant, after the end of the bucket,
\* hands the new projection and the bucket number to both trackers.
C34_Witness ==
    /\ mAnomalyTrackers = 2
    /\ hist.lastFlush = "partial"
    /\ mCurrentSlicedBucketForAnomaly # EmptyMap
    /\ mCurrentSlicedBucket # EmptyMap
    /\ C34_Projection # mCurrentSlicedBucketForAnomaly
    /\ MaxTime > getCurrentBucketEndTimeNs(Self)
    /\ LET r == flushIfNeededLocked(Begin(Self), MaxTime)
       IN /\ Len(r.obs.addPastBucket) = 2
          /\ r.obs.addPastBucket[2].bucket = C34_Projection
          /\ r.obs.addPastBucket[2].bucketNum = mCurrentBucketNum
          /\ r.mCurrentBucketNum > mCurrentBucketNum

C36_ErasingDump ==
    \E include_current_partial_bucket \in BOOLEAN :
        Install(onDumpReportLocked(Begin(Self), elapsedRealtimeNs,
                                   include_current_partial_bucket, TRUE))

\* In the state reached, flushes, dropData and clearPastBuckets keep
\* mDimensionGuardrailHit, and every flush clears mHasHitGuardrail.
C36_FlushKeepsLatch ==
    \A t \in elapsedRealtimeNs..MaxTime :
        LET full == flushIfNeededLocked(Self, t)
            partial == flushLocked(Self, t)
            dropped == dropDataLocked(Self, t)
            cleared == clearPastBucketsLocked(Self, t)
        IN /\ full.mDimensionGuardrailHit = mDimensionGuardrailHit
           /\ partial.mDimensionGuardrailHit = mDimensionGuardrailHit
           /\ dropped.mDimensionGuardrailHit = mDimensionGuardrailHit
           /\ cleared.mDimensionGuardrailHit = mDimensionGuardrailHit
           /\ ~partial.mHasHitGuardrail
           /\ full.obs.nFlush > 0 => ~full.mHasHitGuardrail
           /\ dropped.obs.nFlush > 0 => ~dropped.mHasHitGuardrail
           /\ cleared.obs.nFlush > 0 => ~cleared.mHasHitGuardrail

\* C36: mDimensionGuardrailHit is latched. Bucket flushes, dropData and
\* clearPastBuckets keep it, and a step in which it goes from true to false
\* is an onDumpReport with erase_data set; mHasHitGuardrail is false after
\* every flush.
C36_GuardrailHitIsLatched ==
    /\ []C36_FlushKeepsLatch
    /\ [][mDimensionGuardrailHit /\ ~mDimensionGuardrailHit' => C36_ErasingDump]_vars

\* The guardrail was hit in a bucket that has been flushed since: the latch
\* is set, the flag of the bucket is clear again, nothing is on record any
\* more (dropData or clearPastBuckets has run), and an erasing dump still
\* finds the latch set.
C36_Witness ==
    /\ mDimensionGuardrailHit
    /\ ~mHasHitGuardrail
    /\ hist.lastFlush # "none"
    /\ mPastBuckets = EmptyMap
    /\ mCurrentSlicedBucket # EmptyMap
    /\ ~onDumpReportLocked(Self, elapsedRealtimeNs, TRUE, TRUE).mDimensionGuardrailHit

\* The current bucket starts inside the grid bucket that mCurrentBucketNum
\* names.
C37_StartInsideGridBucket ==
    /\ mTimeBaseNs + mCurrentBucketNum * mBucketSizeNs <= mCurrentBucketStartTimeNs
    /\ mCurrentBucketStartTimeNs < mTimeBaseNs + (mCurrentBucketNum + 1) * mBucketSizeNs

\* C37: for a producer constructed at startTimeNs >= timeBaseNs, in every
\* reachable state mTimeBaseNs + mCurrentBucketNum * mBucketSizeNs
\* <= mCurrentBucketStartTimeNs
\* < mTimeBaseNs + (mCurrentBucketNum + 1) * mBucketSizeNs, and no step makes
\* mCurrentBucketNum or mCurrentBucketStartTimeNs smaller.
C37_BucketWindow ==
    /\ []C37_StartInsideGridBucket
    /\ [][/\ mCurrentBucketNum' >= mCurrentBucketNum
          /\ mCurrentBucketStartTimeNs' >= mCurrentBucketStartTimeNs]_vars

\* After a full flush and a partial one the current bucket is the second
\* bucket of the grid or a later one and starts off the grid, at the time of
\* the partial flush.
C37_Witness ==
    /\ hist.lastFlush = "partial"
    /\ mCurrentBucketNum >= 1
    /\ ~Aligned(mCurrentBucketStartTimeNs)
    /\ mCurrentBucketStartTimeNs = elapsedRealtimeNs
    /\ mPastBuckets # EmptyMap

\* C38: the past buckets of every dimension are in chronological order and
\* do not overlap: of two consecutive entries the first ends no later than
\* the second starts. The same holds for the skipped buckets.
C38_BucketsInOrder ==
    /\ \A d \in DOMAIN mPastBuckets :
          \A i \in 1..(Len(mPastBuckets[d]) - 1) :
              /\ mPastBuckets[d][i].mBucketStartNs <= mPastBuckets[d][i].mBucketEndNs
              /\ mPastBuckets[d][i].mBucketEndNs <= mPastBuckets[d][i + 1].mBucketStartNs
    /\ \A i \in 1..(Len(mSkippedBuckets) - 1) :
          /\ mSkippedBuckets[i].bucketStartTimeNs <= mSkippedBuckets[i].bucketEndTimeNs
          /\ mSkippedBuckets[i].bucketEndTimeNs
                <= mSkippedBuckets[i + 1].bucketStartTimeNs

\* A dimension has two past buckets, a partial one followed by one that
\* starts where the first ends, and a skipped bucket is on record as well.
C38_Witness ==
    /\ \E d \in DOMAIN mPastBuckets :
          /\ Len(mPastBuckets[d]) >= 2
          /\ mPastBuckets[d][1].mBucketEndNs = mPastBuckets[d][2].mBucketStartNs
          /\ mPastBuckets[d][1].mBucketStartNs < mPastBuckets[d][1].mBucketEndNs
    /\ mSkippedBuckets # << >>

\* C39: every dimension key of the current sliced bucket holds at least one
\* gauge atom, whatever mGaugeAtomsPerDimensionLimit is, 0 included, and
\* every past bucket holds at least one aggregated atom.
C39_EveryKeyHoldsAnAtom ==
    /\ \A d \in DOMAIN mCurrentSlicedBucket : mCurrentSlicedBucket[d] # << >>
    /\ \A b \in AllPastBuckets : NumTimestamps(b) >= 1

\* C40: under RANDOM_ONE_SAMPLE on a pulled atom all gauge atoms of a bucket
\* come from one pull: in every state the atoms of the current sliced bucket
\* carry one and the same timestamp, also when pulls made by the producer
\* and batches handed to onDataPulled alternate within the bucket.
C40_OneBucketOnePull ==
    mIsPulled /\ mSamplingType = RANDOM_ONE_SAMPLE =>
        \A d \in DOMAIN mCurrentSlicedBucket, e \in DOMAIN mCurrentSlicedBucket :
            \A a \in AtomsOf(mCurrentSlicedBucket, d),
               b \in AtomsOf(mCurrentSlicedBucket, e) : a.ts = b.ts

====
